---- MODULE Spec2Model ----
(***************************************************************************)
(* A model of scan_unmerged_branches.py: the ScanUnmergedBranches scanner  *)
(* (git fetch, branch discovery, divergence reading, staleness filter,     *)
(* report shaping, history, report writing) and its aggregations.          *)
(*                                                                         *)
(* Representation.                                                         *)
(*   str    a sequence of characters (strings of one or more letters: the  *)
(*          letters of a word that no operation looks into are kept as one *)
(*          character, e.g. "origin/").                                    *)
(*   dict   Python's insertion-ordered dict: a sequence of [k, v] records  *)
(*          with pairwise distinct keys.                                   *)
(*   time   an integer count of clock units, DayLen units to the day.      *)
(***************************************************************************)
EXTENDS Integers, Sequences, FiniteSets, TLC

(***************************************************************************)
(* Bounds of the model.                                                    *)
(***************************************************************************)
\* scan calls made on one instance
MaxScans == 2
\* clock ticks that may pass during one run
MaxTicks == 1
\* clock units per day
DayLen == 2
\* ScanRecords handed to an aggregation
MaxRecords == 2

(***************************************************************************)
(* Strings.                                                                *)
(***************************************************************************)
\* string.whitespace (two of its six characters)
Whitespace == {" ", "\t"}

HasWhitespace(text) == \E i \in DOMAIN text : text[i] \in Whitespace

\* str.strip(): the text without its leading and trailing whitespace
RECURSIVE LStrip(_)
LStrip(text) ==
    IF text # <<>> /\ Head(text) \in Whitespace THEN LStrip(Tail(text)) ELSE text

RECURSIVE RStrip(_)
RStrip(text) ==
    IF text # <<>> /\ text[Len(text)] \in Whitespace
    THEN RStrip(SubSeq(text, 1, Len(text) - 1))
    ELSE text

Strip(text) == RStrip(LStrip(text))

\* text.startswith('origin/')
StartsWithOrigin(text) == text # <<>> /\ Head(text) = "origin/"

\* 'origin/{}'.format(text) unless text starts with it already
WithOrigin(text) == IF StartsWithOrigin(text) THEN text ELSE <<"origin/">> \o text

\* line.split('|'): the fields between the '|' characters of a line
RECURSIVE SplitPipe(_)
SplitPipe(line) ==
    IF \A i \in DOMAIN line : line[i] # "|"
    THEN <<line>>
    ELSE LET i == CHOOSE j \in DOMAIN line :
                      line[j] = "|" /\ \A k \in 1..(j - 1) : line[k] # "|"
         IN  <<SubSeq(line, 1, i - 1)>> \o SplitPipe(SubSeq(line, i + 1, Len(line)))

\* whether `part` occurs in `text` as a contiguous substring
Contains(text, part) ==
    \E i \in 1..(Len(text) - Len(part) + 1) : SubSeq(text, i, i + Len(part) - 1) = part

(***************************************************************************)
(* Dicts.                                                                  *)
(***************************************************************************)
Keys(d) == {d[i].k : i \in DOMAIN d}

KeySeq(d) == [i \in DOMAIN d |-> d[i].k]

HasKey(d, key) == \E i \in DOMAIN d : d[i].k = key

Get(d, key) == d[CHOOSE i \in DOMAIN d : d[i].k = key].v

\* d[key] = value: in place for a key the dict holds, appended otherwise
Put(d, key, value) ==
    IF HasKey(d, key)
    THEN [i \in DOMAIN d |-> IF d[i].k = key THEN [k |-> key, v |-> value] ELSE d[i]]
    ELSE Append(d, [k |-> key, v |-> value])

\* d.setdefault(key, default): the dict after the call
SetDefault(d, key, default) == IF HasKey(d, key) THEN d ELSE Put(d, key, default)

WellFormedDict(d) == \A i, j \in DOMAIN d : d[i].k = d[j].k => i = j

\* kwargs.pop(key, default): the value
Pop(kwargs, key, default) == IF HasKey(kwargs, key) THEN Get(kwargs, key) ELSE default

\* kwargs.pop(key, default): the dict left
Without(kwargs, key) ==
    LET F[i \in 0..Len(kwargs)] ==
            IF i = 0 THEN <<>>
            ELSE IF kwargs[i].k = key THEN F[i - 1] ELSE Append(F[i - 1], kwargs[i])
    IN  F[Len(kwargs)]

(***************************************************************************)
(* Option values.  An option is a bool, an int or a str, as the caller, a  *)
(* .json config or the command line gives it: [t: its type, x: its text]. *)
(***************************************************************************)
B(b) == [t |-> "bool", x |-> IF b THEN "True" ELSE "False"]

S(text) == [t |-> "str", x |-> text]

\* the truth value Python gives an option in `if option:`
Truthy(v) ==
    CASE v.t = "bool" -> v.x = "True"
      [] v.t = "int"  -> v.x # "0"
      [] OTHER        -> v.x # ""

\* `option is False`
IsFalse(v) == v.t = "bool" /\ v.x = "False"

IntTable == [x \in {"0", "1", "7", "9"} |-> CASE x = "0" -> 0 [] x = "1" -> 1
                                               [] x = "7" -> 7 [] OTHER -> 9]

\* int(v) succeeds
CanInt(v) == v.t = "bool" \/ v.x \in DOMAIN IntTable

\* int(v)
IntOf(v) == IF v.t = "bool" THEN (IF v.x = "True" THEN 1 ELSE 0) ELSE IntTable[v.x]

STALE_DAYS_DEFAULT == S("7")

DEFAULT_MAIN_BRANCH == <<"main">>

(***************************************************************************)
(* Time.  A timestamp is the text git prints for %aI; strptime with        *)
(* DATE_FRMT accepts the ones of DateInstant and gives their instant.      *)
(***************************************************************************)
DateInstant == [d \in {"D00", "D03", "D15", "D20"} |->
                   CASE d = "D00" -> 0 [] d = "D03" -> 3 [] d = "D15" -> 15 [] OTHER -> 20]

\* timestamps strptime rejects (ValueError): a date without time, a time without offset
BadDates == {<<"2020-01-28">>, <<"2020-01-28T11:39:03">>}

Now0 == 8 * DayLen

\* datetime.strptime(date_, DATE_FRMT) succeeds
CanStrptime(date_) == Len(date_) = 1 /\ date_[1] \in DOMAIN DateInstant

Strptime(date_) == DateInstant[date_[1]]

\* timedelta.days of (t1 - t0): whole days, rounded down (also when negative)
Days(t1, t0) == (t1 - t0) \div DayLen

\* the i-th reading of a clock whose readings are `clk`
Reading(clk, i) == clk[IF i <= Len(clk) THEN i ELSE Len(clk)]

(***************************************************************************)
(* git_exec results: ExecRes(rc, stdout, stderr), or a timeout.            *)
(***************************************************************************)
ExecRes(rc, stdout, stderr) ==
    [timeout |-> FALSE, rc |-> rc, stdout |-> stdout, stderr |-> stderr]

TimeoutExpired == [timeout |-> TRUE, rc |-> 0, stdout |-> <<>>, stderr |-> <<>>]

(***************************************************************************)
(* ScanUnmergedBranches: the pure parts of its methods.                    *)
(***************************************************************************)
\* the assert left out
NoWhitespaceUnchecked(text) == TRUE

\* assert_no_whitespace(text) passes
NoWhitespace(text) == ~HasWhitespace(text)

\* branch = branch or self.main_branch_name
BranchOrMain(branch, main_branch_name) == IF branch = <<>> THEN main_branch_name ELSE branch

\* a branch_filter that drops only the entries with whitespace
branch_filter_whitespace_only(b, include_main, main_branch_name) == ~HasWhitespace(b)

\* get_list_of_unmerged_branches: branch_filter(b)
branch_filter(b, include_main, main_branch_name) ==
    /\ ~HasWhitespace(b)
    /\ ~(IsFalse(include_main) /\ b = <<"origin/">> \o main_branch_name)

\* filter(f, seq) for a predicate given as the set of the elements it keeps
RECURSIVE Filter(_, _)
Filter(seq, keep) ==
    IF seq = <<>> THEN <<>>
    ELSE (IF Head(seq) \in keep THEN <<Head(seq)>> ELSE <<>>) \o Filter(Tail(seq), keep)

\* get_list_of_unmerged_branches: the list made of the command's stdout
BranchesOfListing(stdout, include_main, main_branch_name) ==
    LET branches == [i \in DOMAIN stdout |-> Strip(stdout[i])]
    IN  Filter(branches, {b \in {branches[i] : i \in DOMAIN branches} :
                              branch_filter(b, include_main, main_branch_name)})

\* COMMIT_DETAILS(*fields) succeeds: exactly four fields
IsCommitLine(line) == Len(SplitPipe(Strip(line))) = 4

COMMIT_DETAILS(line) ==
    LET f == SplitPipe(Strip(line))
    IN  [hash |-> f[1], date |-> f[2], author |-> f[3], subject |-> f[4]]

\* get_list_of_unmerged_commits: the list comprehension over stdout raises no error
CanParseCommits(stdout) == \A i \in DOMAIN stdout : IsCommitLine(stdout[i])

ParseCommits(stdout) == [i \in DOMAIN stdout |-> COMMIT_DETAILS(stdout[i])]

\* date_is_older_than_n_days(date_, n_days) with the clock reading `now`
date_is_older_than_n_days(date_, n_days, now) ==
    IF ~CanStrptime(date_) THEN FALSE ELSE Days(now, Strptime(date_)) >= n_days

\* date_is_older_than_n_days(date_, n_days, raise_exceptions) with the clock
\* reading `now`: [raised: the exception ("" for none), value: what it returns]
date_is_older_than_n_days_with(date_, n_days, raise_exceptions, now) ==
    IF ~CanStrptime(date_)
    THEN [raised |-> IF Truthy(raise_exceptions) THEN "ValueError" ELSE "", value |-> FALSE]
    ELSE [raised |-> "", value |-> Days(now, Strptime(date_)) >= n_days]

\* all() over the dates that parse only: a date that does not parse is passed over
RECURSIVE AllOldOfParsed(_, _, _, _)
AllOldOfParsed(dates, stale, clk, n) ==
    IF dates = <<>> THEN [all |-> TRUE, n |-> n]
    ELSE LET d == Head(dates)
         IN  IF ~CanStrptime(d) THEN AllOldOfParsed(Tail(dates), stale, clk, n)
             ELSE IF ~date_is_older_than_n_days(d, stale, Reading(clk, n))
                  THEN [all |-> FALSE, n |-> n + 1]
                  ELSE AllOldOfParsed(Tail(dates), stale, clk, n + 1)

\* the mutant of C2: the first commit of a branch decides for the branch
AllOldFirst(dates, stale, clk, n) ==
    IF dates = <<>> THEN [all |-> TRUE, n |-> n]
    ELSE [all |-> date_is_older_than_n_days(Head(dates), stale, Reading(clk, n)),
          n |-> n + 1]

\* all(date_is_older_than_n_days(d, stale) for d in dates), the clock read once per
\* date that parses, from reading number n on; all() stops at the first False.
\* [all: the verdict, n: the number of the next reading]
RECURSIVE AllOld(_, _, _, _)
AllOld(dates, stale, clk, n) ==
    IF dates = <<>> THEN [all |-> TRUE, n |-> n]
    ELSE LET d == Head(dates)
         IN  IF ~CanStrptime(d) THEN [all |-> FALSE, n |-> n]
             ELSE IF ~date_is_older_than_n_days(d, stale, Reading(clk, n))
                  THEN [all |-> FALSE, n |-> n + 1]
                  ELSE AllOld(Tail(dates), stale, clk, n + 1)

DatesOf(commits) == [i \in DOMAIN commits |-> commits[i].date]

\* extract_stale_branches, the clock giving the readings clk from number n on
RECURSIVE ExtractStaleFrom(_, _, _, _)
ExtractStaleFrom(unmerged_commits_by_branch, stale, clk, n) ==
    IF unmerged_commits_by_branch = <<>> THEN <<>>
    ELSE LET e == Head(unmerged_commits_by_branch)
             r == AllOld(DatesOf(e.v), stale, clk, n)
             rest == ExtractStaleFrom(Tail(unmerged_commits_by_branch), stale, clk, r.n)
         IN  IF r.all THEN <<e>> \o rest ELSE rest

extract_stale_branches(unmerged_commits_by_branch, stale, clk) ==
    ExtractStaleFrom(unmerged_commits_by_branch, stale, clk, 1)

\* convert_commit_to_dict without the popped author
CommitDict(commit) == [hash |-> commit.hash, date |-> commit.date, subject |-> commit.subject]

\* a grouping that keeps the last commit of each author only
convert_commits_list_to_dict_by_author_last(commits) ==
    LET F[i \in 0..Len(commits)] ==
            IF i = 0 THEN <<>>
            ELSE Put(F[i - 1], commits[i].author, <<CommitDict(commits[i])>>)
    IN  F[Len(commits)]

convert_commits_list_to_dict_by_author(commits) ==
    LET F[i \in 0..Len(commits)] ==
            IF i = 0 THEN <<>>
            ELSE LET author == commits[i].author
                     d == SetDefault(F[i - 1], author, <<>>)
                 IN  Put(d, author, Append(Get(d, author), CommitDict(commits[i])))
    IN  F[Len(commits)]

create_report_by_branch(stale_branches_with_commits) ==
    [i \in DOMAIN stale_branches_with_commits |->
        [k |-> stale_branches_with_commits[i].k,
         v |-> convert_commits_list_to_dict_by_author(stale_branches_with_commits[i].v)]]

(***************************************************************************)
(* The commands the scanner runs, and execute_git_fetch.                   *)
(***************************************************************************)
UNSHALLOW_DIAG == "--unshallow on a complete repository does not make sense"

FetchOptions == << <<"--prune">>, <<"--prune-tags">>, <<"--no-tags">>,
                   <<"--no-recurse-submodules">>, <<"--unshallow">> >>

\* options.remove('--unshallow')
RemoveUnshallow(options) ==
    Filter(options, {o \in {options[i] : i \in DOMAIN options} : o # <<"--unshallow">>})

\* a command spawned by git_exec, with the exit code it ended with (-1: timed out)
Spawned(cmd, args, res) ==
    [cmd |-> cmd, args |-> args, rc |-> IF res.timeout THEN -1 ELSE res.rc]

\* git_exec, lines 25-26: the processes of `cmds` that communicate(timeout=timeout)
\* gave up on; it raises TimeoutExpired and leaves the process as it is
StillRunning(cmds) ==
    LET F[i \in 0..Len(cmds)] ==
            IF i = 0 THEN <<>>
            ELSE IF cmds[i].rc = -1 THEN Append(F[i - 1], cmds[i]) ELSE F[i - 1]
    IN  F[Len(cmds)]

\* '--unshallow on a complete repository does not make sense' in res.stderr:
\* res.stderr is the list of stderr's lines
DiagInStderr(stderr) == \E i \in DOMAIN stderr : stderr[i] = <<UNSHALLOW_DIAG>>

\* execute_git_fetch raising on a non-zero exit code of the fetch
execute_git_fetch_checked(repo_dir, res1, res2) ==
    [raised |-> IF res1.timeout THEN "TimeoutExpired"
                ELSE IF res1.rc # 0 THEN "CalledProcessError" ELSE "",
     res |-> res1,
     cmds |-> <<Spawned("fetch", FetchOptions, res1)>>]

\* execute_git_fetch(repo_dir), its first git_exec giving res1 and its second, if
\* run, res2: [raised: the exception ("" for none), res: the result returned,
\* cmds: the commands spawned]
execute_git_fetch(repo_dir, res1, res2) ==
    LET first == Spawned("fetch", FetchOptions, res1)
        second == Spawned("fetch", RemoveUnshallow(FetchOptions), res2)
    IN  IF ~NoWhitespace(repo_dir)
        THEN [raised |-> "AssertionError", res |-> res1, cmds |-> <<>>]
        ELSE IF res1.timeout
        THEN [raised |-> "TimeoutExpired", res |-> res1, cmds |-> <<first>>]
        ELSE IF DiagInStderr(res1.stderr)
             THEN [raised |-> IF res2.timeout THEN "TimeoutExpired" ELSE "",
                   res |-> res2, cmds |-> <<first, second>>]
             ELSE [raised |-> "", res |-> res1, cmds |-> <<first>>]

(***************************************************************************)
(* The aggregations of scan results (ScanRecords).                         *)
(***************************************************************************)
\* aggregate_scan_results_by_repo keeping the first report of a (repo_dir, branch)
aggregate_scan_results_by_repo_first(results_by_branch) ==
    LET F[i \in 0..Len(results_by_branch)] ==
            IF i = 0 THEN <<>>
            ELSE LET r == results_by_branch[i]
                     d == SetDefault(F[i - 1], r.repo_dir, <<>>)
                 IN  Put(d, r.repo_dir, SetDefault(Get(d, r.repo_dir), r.branch, r.report))
    IN  F[Len(results_by_branch)]

\* aggregate_scan_results_by_repo
aggregate_scan_results_by_repo(results_by_branch) ==
    LET F[i \in 0..Len(results_by_branch)] ==
            IF i = 0 THEN <<>>
            ELSE LET r == results_by_branch[i]
                     d == SetDefault(F[i - 1], r.repo_dir, <<>>)
                 IN  Put(d, r.repo_dir, Put(Get(d, r.repo_dir), r.branch, r.report))
    IN  F[Len(results_by_branch)]

\* the (author, commits_list) items of one record's report, in the order the two
\* inner loops of aggregate_scan_results_by_email and create_pipeline_report visit
\* them: [branch, author, commits]
RECURSIVE Flatten(_)
Flatten(seqs) == IF seqs = <<>> THEN <<>> ELSE Head(seqs) \o Flatten(Tail(seqs))

GroupsOf(report) ==
    Flatten([i \in DOMAIN report |->
                [j \in DOMAIN report[i].v |->
                    [branch |-> report[i].k, author |-> report[i].v[j].k,
                     commits |-> report[i].v[j].v]]])

\* the inner loop body with `author_dict = {}` for setdefault
EmailStepReset(results_by_email, repo_dir, target_branch, g) ==
    Put(results_by_email, g.author, Put(<<>>, repo_dir, Put(<<>>, target_branch, g.commits)))

\* aggregate_scan_results_by_email: the three statements of the inner loop body
EmailStep(results_by_email, repo_dir, target_branch, g) ==
    LET d1 == SetDefault(results_by_email, g.author, <<>>)
        author_dict == SetDefault(Get(d1, g.author), repo_dir, <<>>)
        repo_dict == Put(Get(author_dict, repo_dir), target_branch, g.commits)
    IN  Put(d1, g.author, Put(author_dict, repo_dir, repo_dict))

aggregate_scan_results_by_email(results_by_branch) ==
    LET items == Flatten([i \in DOMAIN results_by_branch |->
                    LET gs == GroupsOf(results_by_branch[i].report)
                    IN  [j \in DOMAIN gs |->
                            [repo_dir |-> results_by_branch[i].repo_dir,
                             target_branch |-> results_by_branch[i].branch, g |-> gs[j]]]])
        F[i \in 0..Len(items)] ==
            IF i = 0 THEN <<>>
            ELSE EmailStep(F[i - 1], items[i].repo_dir, items[i].target_branch, items[i].g)
    IN  F[Len(items)]

\* os.path.basename(path): what follows the last '/'
RECURSIVE Basename(_)
Basename(path) ==
    IF \A i \in DOMAIN path : path[i] # "/" THEN path
    ELSE Basename(Tail(path))

\* the order of the characters in use, as Python compares them
CharOrder == <<".", "/", "dev", "main", "other", "r1", "r2", "ws">>

Rank(c) == CHOOSE i \in DOMAIN CharOrder : CharOrder[i] = c

\* a < b for two str
RECURSIVE StrLess(_, _)
StrLess(a, b) ==
    IF b = <<>> THEN FALSE
    ELSE IF a = <<>> THEN TRUE
    ELSE IF Head(a) = Head(b) THEN StrLess(Tail(a), Tail(b))
    ELSE Rank(Head(a)) < Rank(Head(b))

\* the sort key of create_pipeline_report: (basename(repo_dir), branch)
KeyLess(r1, r2) ==
    LET b1 == Basename(r1.repo_dir)
        b2 == Basename(r2.repo_dir)
    IN  StrLess(b1, b2) \/ (b1 = b2 /\ StrLess(r1.branch, r2.branch))

\* sorted(results, key=...): stable
RECURSIVE InsertSorted(_, _)
InsertSorted(sorted, r) ==
    IF sorted = <<>> THEN <<r>>
    ELSE IF KeyLess(r, Head(sorted)) THEN <<r>> \o sorted
    ELSE <<Head(sorted)>> \o InsertSorted(Tail(sorted), r)

\* the results in the order given
Unsorted(results) == results

Sorted(results) ==
    LET F[i \in 0..Len(results)] ==
            IF i = 0 THEN <<>> ELSE InsertSorted(F[i - 1], results[i])
    IN  F[Len(results)]

\* '<{}>:{}'.format(repo_name, target_branch)
ScanId(r) == <<"<">> \o Basename(r.repo_dir) \o <<">", ":">> \o r.branch

\* `report is None`: no report of a scan is
IsFreshIfNone(report) == FALSE

\* `not report`
IsFresh(report) == report = <<>>

\* the lines of the message
FreshLine(scan_id) == [kind |-> "fresh", id |-> scan_id, branch |-> <<>>, days |-> 0]

SummaryLine(scan_id) == [kind |-> "summary", id |-> scan_id, branch |-> <<>>, days |-> 0]

SubLine(scan_id, branch, days) ==
    [kind |-> "sub", id |-> scan_id, branch |-> branch, days |-> days]

\* extract_latest_date_from_commits raises no ValueError
CanExtractLatest(commits) ==
    commits # <<>> /\ \A i \in DOMAIN commits : CanStrptime(commits[i].date)

\* the date of the oldest commit instead of the latest
extract_oldest_date_from_commits(commits) ==
    LET ts == {Strptime(commits[i].date) : i \in DOMAIN commits}
    IN  CHOOSE t \in ts : \A u \in ts : t <= u

extract_latest_date_from_commits(commits) ==
    LET ts == {Strptime(commits[i].date) : i \in DOMAIN commits}
    IN  CHOOSE t \in ts : \A u \in ts : u <= t

\* create_pipeline_report, the clock giving the readings clk:
\* [raised, scans, message (its lines)]
create_pipeline_report(results_by_branch, clk) ==
    LET rs == Sorted(results_by_branch)
        \* [raised, scans, lines, n: the number of the next clock reading]
        F[i \in 0..Len(rs)] ==
            IF i = 0 THEN [raised |-> "", scans |-> <<>>, lines |-> <<>>, n |-> 1]
            ELSE LET acc == F[i - 1]
                     r == rs[i]
                     id == ScanId(r)
                     gs == GroupsOf(r.report)
                 IN  IF acc.raised # "" THEN acc
                     ELSE IF IsFresh(r.report)
                     THEN [acc EXCEPT !.lines = Append(acc.lines, FreshLine(id))]
                     ELSE IF \E j \in DOMAIN gs : ~CanExtractLatest(gs[j].commits)
                     THEN [acc EXCEPT !.raised = "ValueError"]
                     ELSE [acc EXCEPT
                             !.scans = Put(acc.scans, id, r.report),
                             !.lines = acc.lines \o <<SummaryLine(id)>> \o
                                 [j \in DOMAIN gs |->
                                     SubLine(id, gs[j].branch,
                                         Days(Reading(clk, acc.n + j - 1),
                                              extract_latest_date_from_commits(gs[j].commits)))],
                             !.n = acc.n + Len(gs)]
    IN  [raised |-> F[Len(rs)].raised, scans |-> F[Len(rs)].scans, message |-> F[Len(rs)].lines]

(***************************************************************************)
(* The state.                                                              *)
(***************************************************************************)
VARIABLES
    save_scans,         \* self.save_scans
    main_branch_name,   \* self.main_branch_name
    scans,              \* self.scans
    pc,                 \* where the call in progress stands
    frame,              \* the arguments and local variables of the call in progress
    outcome,            \* how the call ended: what it returned or raised
    cmds,               \* the commands the call in progress has spawned, in order
    now,                \* the clock
    ncalls,             \* calls made on the instance
    inp,                \* the input of a function checked on its own
    out,                \* its output
    procs               \* the processes git_exec has spawned that are still running

vars ==
    <<save_scans, main_branch_name, scans, pc, frame, outcome, cmds, now, ncalls, inp, out, procs>>

NoFrame ==
    [op |-> "", branch |-> <<>>, repo_dir |-> <<>>, kwargs |-> <<>>, rest |-> <<>>,
     return_report |-> B(FALSE), include_main |-> B(FALSE), fetch_first |-> B(TRUE),
     save_scan |-> B(FALSE), stale |-> 0,
     unmerged_branches |-> <<>>, todo |-> <<>>, unmerged_commits_by_branch |-> <<>>,
     stale_branches_with_commits |-> <<>>, report_by_branch |-> <<>>,
     listing |-> <<>>, logs |-> <<>>, scans_before |-> <<>>]

\* (listing and logs keep what git printed for the call: the stdout of the branch
\* listing and, by branch, of each log; scans_before keeps self.scans as the call
\* found it; the program itself keeps none of the three)

\* status: "" (running), "returned" or "raised"; err: the exception raised;
\* value: what was returned ("report", "list", "0", "1");
\* written: "" (no write attempted), "ok" or "failed"
NoOutcome == [status |-> "", err |-> "", value |-> "", written |-> ""]

Returned(value, written) ==
    [status |-> "returned", err |-> "", value |-> value, written |-> written]

Raised(err, written) == [status |-> "raised", err |-> err, value |-> "", written |-> written]

(***************************************************************************)
(* get_list_of_unmerged_branches and get_list_of_unmerged_commits, the     *)
(* git_exec of each giving res:                                            *)
(* [raised: the exception ("" for none), cmds: the commands spawned,      *)
(*  list: the list returned]                                               *)
(***************************************************************************)
\* get_list_of_unmerged_branches raising on a non-zero exit code of the listing
get_list_of_unmerged_branches_checked(branch, repo_dir, include_main, self_main, res) ==
    LET b == BranchOrMain(branch, self_main)
        spawned == <<Spawned("branch", <<WithOrigin(b)>>, res)>>
    IN  IF ~NoWhitespace(b) \/ ~NoWhitespace(repo_dir)
        THEN [raised |-> "AssertionError", cmds |-> <<>>, list |-> <<>>]
        ELSE IF res.timeout
             THEN [raised |-> "TimeoutExpired", cmds |-> spawned, list |-> <<>>]
             ELSE IF res.rc # 0
                  THEN [raised |-> "CalledProcessError", cmds |-> spawned, list |-> <<>>]
                  ELSE [raised |-> "", cmds |-> spawned,
                        list |-> BranchesOfListing(res.stdout, include_main, self_main)]

get_list_of_unmerged_branches(branch, repo_dir, include_main, self_main, res) ==
    LET b == BranchOrMain(branch, self_main)
        spawned == <<Spawned("branch", <<WithOrigin(b)>>, res)>>
    IN  IF ~NoWhitespace(b) \/ ~NoWhitespace(repo_dir)
        THEN [raised |-> "AssertionError", cmds |-> <<>>, list |-> <<>>]
        ELSE IF res.timeout
             THEN [raised |-> "TimeoutExpired", cmds |-> spawned, list |-> <<>>]
             ELSE [raised |-> "", cmds |-> spawned,
                   list |-> BranchesOfListing(res.stdout, include_main, self_main)]

\* get_list_of_unmerged_commits leaving out the lines that are not commit lines
get_list_of_unmerged_commits_skipping(source_branch, target_branch, repo_dir, res) ==
    LET spawned == <<Spawned("log", <<WithOrigin(source_branch), WithOrigin(target_branch)>>, res)>>
        lines == Filter(res.stdout, {l \in {res.stdout[i] : i \in DOMAIN res.stdout} :
                                        IsCommitLine(l)})
    IN  IF \/ ~NoWhitespace(source_branch)
           \/ ~NoWhitespace(target_branch)
           \/ ~NoWhitespace(repo_dir)
        THEN [raised |-> "AssertionError", cmds |-> <<>>, list |-> <<>>]
        ELSE IF res.timeout
             THEN [raised |-> "TimeoutExpired", cmds |-> spawned, list |-> <<>>]
             ELSE [raised |-> "", cmds |-> spawned, list |-> ParseCommits(lines)]

get_list_of_unmerged_commits(source_branch, target_branch, repo_dir, res) ==
    LET spawned == <<Spawned("log", <<WithOrigin(source_branch), WithOrigin(target_branch)>>, res)>>
    IN  IF \/ ~NoWhitespace(source_branch)
           \/ ~NoWhitespace(target_branch)
           \/ ~NoWhitespace(repo_dir)
        THEN [raised |-> "AssertionError", cmds |-> <<>>, list |-> <<>>]
        ELSE IF res.timeout
             THEN [raised |-> "TimeoutExpired", cmds |-> spawned, list |-> <<>>]
             ELSE IF ~CanParseCommits(res.stdout)
                  THEN [raised |-> "TypeError", cmds |-> spawned, list |-> <<>>]
                  ELSE [raised |-> "", cmds |-> spawned, list |-> ParseCommits(res.stdout)]

(***************************************************************************)
(* What the callers pass and what git answers.                             *)
(***************************************************************************)
Branches == {<<>>, <<"dev">>, <<"Bad", " ", "Branch">>}

SourceBranches == {<<"origin/", "f1">>, <<"f", " ", "1">>}

RepoDirs == {<<".">>, <<"my", "\t", "repo">>}

Kw(key, value) == <<[k |-> key, v |-> value]>>

ScanKwargs ==
    {<<>>, Kw("return_report", B(TRUE)), Kw("fetch_first", B(FALSE)),
     Kw("save_scan", B(TRUE)), Kw("save_scan", B(FALSE)),
     Kw("raise_exceptions", B(FALSE)), Kw("include_main", B(TRUE)),
     Kw("stale", S("0")), Kw("stale", S(""))}

FetchResults ==
    {ExecRes(0, <<>>, <<>>),
     ExecRes(1, <<>>, << <<"fatal:", " ", "unable to access">> >>),
     ExecRes(128, <<>>, << <<"fatal:", " ", UNSHALLOW_DIAG>> >>),
     ExecRes(128, <<>>, << <<UNSHALLOW_DIAG>> >>),
     TimeoutExpired}

ListingResults ==
    {ExecRes(0, <<>>, <<>>),
     ExecRes(128, <<>>, << <<"fatal:", " ", "malformed object name">> >>),
     ExecRes(0, << <<" ", " ", "origin/", "HEAD", " ", "->", " ", "origin/", "main">>,
                   <<" ", " ", "origin/", "main">>,
                   <<" ", " ", "origin/", "f1">> >>, <<>>),
     TimeoutExpired}

Line(hash, date, author, subject) == <<hash, "|", date, "|", author, "|">> \o subject

LogResults ==
    {ExecRes(0, << Line("h1", "D00", "a@x.com", <<"fix">>) >>, <<>>),
     ExecRes(0, << Line("h2", "D15", "b@x.com", <<"wip">>),
                   Line("h1", "D00", "a@x.com", <<"fix">>) >>, <<>>),
     ExecRes(0, << Line("h3", "D00", "a@x.com", <<"a", "|", "b">>) >>, <<>>),
     ExecRes(0, << Line("h1", "D00", "a@x.com", <<"fix">>), <<"warning:", " ", "refname">> >>, <<>>),
     ExecRes(128, <<>>, << <<"fatal:", " ", "bad revision">> >>),
     TimeoutExpired}

(***************************************************************************)
(* scan(branch, repo_dir, **kwargs), step by step.                         *)
(***************************************************************************)
\* lines 51-61: the arguments are verified and the options extracted
StartScan(branch_arg, repo_dir, kwargs) ==
    /\ pc = "idle"
    /\ ncalls' = ncalls + 1
    /\ cmds' = <<>>
    /\ LET branch == BranchOrMain(branch_arg, main_branch_name)
           stale == Pop(kwargs, "stale", STALE_DAYS_DEFAULT)
           rest == Without(Without(Without(Without(Without(kwargs,
                       "return_report"), "include_main"), "fetch_first"), "save_scan"), "stale")
           f == [NoFrame EXCEPT
                   !.op = "scan", !.branch = branch, !.repo_dir = repo_dir,
                   !.kwargs = kwargs, !.rest = rest, !.scans_before = scans,
                   !.return_report = Pop(kwargs, "return_report", B(FALSE)),
                   !.include_main = Pop(kwargs, "include_main", B(FALSE)),
                   !.fetch_first = Pop(kwargs, "fetch_first", B(TRUE)),
                   !.save_scan = Pop(kwargs, "save_scan", B(save_scans))]
       IN  IF ~NoWhitespace(branch) \/ ~NoWhitespace(repo_dir)
           THEN /\ frame' = f
                /\ outcome' = Raised("AssertionError", "")
                /\ pc' = "error"
           ELSE IF ~CanInt(stale)
                THEN /\ frame' = f
                     /\ outcome' = Raised("ValueError", "")
                     /\ pc' = "error"
                ELSE /\ frame' = [f EXCEPT !.stale = IntOf(stale)]
                     /\ outcome' = NoOutcome
                     /\ pc' = IF Truthy(f.fetch_first) THEN "fetch" ELSE "discover"
    /\ UNCHANGED <<procs, save_scans, main_branch_name, scans, now, inp, out>>

\* lines 63-64: execute_git_fetch(repo_dir), its result dropped
Fetch(res1, res2) ==
    /\ pc = "fetch"
    /\ LET r == execute_git_fetch(frame.repo_dir, res1, res2)
       IN  /\ cmds' = cmds \o r.cmds
           /\ procs' = procs \o StillRunning(r.cmds)
           /\ IF r.raised # ""
              THEN outcome' = Raised(r.raised, "") /\ pc' = "error"
              ELSE outcome' = outcome /\ pc' = "discover"
    /\ UNCHANGED <<save_scans, main_branch_name, scans, frame, now, ncalls, inp, out>>

\* line 66: get_list_of_unmerged_branches(branch, repo_dir, include_main=include_main)
Discover(res) ==
    /\ pc = "discover"
    /\ LET r == get_list_of_unmerged_branches(frame.branch, frame.repo_dir,
                                              frame.include_main, main_branch_name, res)
       IN  /\ cmds' = cmds \o r.cmds
           /\ procs' = procs \o StillRunning(r.cmds)
           /\ IF r.raised # ""
              THEN /\ outcome' = Raised(r.raised, "")
                   /\ pc' = "error"
                   /\ frame' = frame
              ELSE /\ outcome' = outcome
                   /\ frame' = [frame EXCEPT !.unmerged_branches = r.list, !.todo = r.list,
                                              !.listing = res.stdout]
                   /\ pc' = IF r.list = <<>> THEN "filter" ELSE "read"
    /\ UNCHANGED <<save_scans, main_branch_name, scans, now, ncalls, inp, out>>

\* lines 90-92: one turn of the loop of fetch_unmerged_commits_by_branch
ReadDivergence(res) ==
    /\ pc = "read"
    /\ LET unmerged_branch == Head(frame.todo)
           r == get_list_of_unmerged_commits(unmerged_branch, frame.branch, frame.repo_dir, res)
       IN  /\ cmds' = cmds \o r.cmds
           /\ procs' = procs \o StillRunning(r.cmds)
           /\ IF r.raised # ""
              THEN /\ outcome' = Raised(r.raised, "")
                   /\ pc' = "error"
                   /\ frame' = IF r.cmds = <<>> THEN frame
                                ELSE [frame EXCEPT
                                        !.logs = Put(frame.logs, unmerged_branch, res.stdout)]
              ELSE /\ outcome' = outcome
                   /\ frame' = [frame EXCEPT
                         !.todo = Tail(frame.todo),
                         !.logs = Put(frame.logs, unmerged_branch, res.stdout),
                         !.unmerged_commits_by_branch =
                             Put(frame.unmerged_commits_by_branch, unmerged_branch, r.list)]
                   /\ pc' = IF Tail(frame.todo) = <<>> THEN "filter" ELSE "read"
    /\ UNCHANGED <<save_scans, main_branch_name, scans, now, ncalls, inp, out>>

\* line 70: extract_stale_branches(unmerged_commits_by_branch, stale)
FilterStale ==
    /\ pc = "filter"
    /\ frame' = [frame EXCEPT !.stale_branches_with_commits =
                    extract_stale_branches(frame.unmerged_commits_by_branch, frame.stale, <<now>>)]
    /\ pc' = "shape"
    /\ UNCHANGED <<procs, save_scans, main_branch_name, scans, outcome, cmds, now, ncalls, inp, out>>

\* a scan that goes from shaping its report to returning it, whatever save_scan
ShapeSkippingRecord ==
    /\ pc = "shape"
    /\ frame' = [frame EXCEPT !.report_by_branch =
                    create_report_by_branch(frame.stale_branches_with_commits)]
    /\ pc' = "finish"
    /\ UNCHANGED <<procs, save_scans, main_branch_name, scans, outcome, cmds, now, ncalls, inp, out>>

\* line 72: create_report_by_branch(stale_branches_with_commits)
Shape ==
    /\ pc = "shape"
    /\ frame' = [frame EXCEPT !.report_by_branch =
                    create_report_by_branch(frame.stale_branches_with_commits)]
    /\ pc' = IF Truthy(frame.save_scan) THEN "record" ELSE "finish"
    /\ UNCHANGED <<procs, save_scans, main_branch_name, scans, outcome, cmds, now, ncalls, inp, out>>

\* a record that leaves out the options of its call
ScanRecordNoOptions(branch, repo_dir, report, kwargs) ==
    [branch |-> branch, repo_dir |-> repo_dir, report |-> report, kwargs |-> <<>>]

ScanRecord(branch, repo_dir, report, kwargs) ==
    [branch |-> branch, repo_dir |-> repo_dir, report |-> report, kwargs |-> kwargs]

\* lines 74-76: self.scans.append(...)
Record ==
    /\ pc = "record"
    /\ scans' = Append(scans, ScanRecord(frame.branch, frame.repo_dir,
                                         frame.report_by_branch, frame.kwargs))
    /\ pc' = "finish"
    /\ UNCHANGED <<procs, save_scans, main_branch_name, frame, outcome, cmds, now, ncalls, inp, out>>

\* a write_report that keeps a failed write to itself
write_report_silent(kwargs, write_ok) == Returned("0", IF write_ok THEN "ok" ELSE "failed")

\* write_report(report, **kwargs), the write succeeding or not: how it ends
write_report(kwargs, write_ok) ==
    IF write_ok THEN Returned("0", "ok")
    ELSE IF Truthy(Pop(kwargs, "raise_exceptions", B(TRUE)))
         THEN Raised("WriteError", "failed")
         ELSE Returned("1", "failed")

\* write_pipeline_report(report, output, **kwargs) once the digest is made, the
\* write succeeding or not: how it ends
write_pipeline_report(kwargs, write_ok) ==
    IF write_ok THEN Returned("0", "ok")
    ELSE IF Truthy(Pop(kwargs, "raise_exceptions", B(TRUE)))
         THEN Raised("WriteError", "failed")
         ELSE Returned("1", "failed")

\* lines 78-81: the report is returned, or written
Finish(write_ok) ==
    /\ pc = "finish"
    /\ outcome' = IF Truthy(frame.return_report)
                  THEN Returned("report", "")
                  ELSE write_report(frame.rest, write_ok)
    /\ pc' = IF outcome'.status = "raised" THEN "error" ELSE "done"
    /\ UNCHANGED <<procs, save_scans, main_branch_name, scans, frame, cmds, now, ncalls, inp, out>>

\* the caller has the result (or the exception) of its call; the instance stays
Return ==
    /\ pc \in {"done", "error"}
    /\ pc' = "idle"
    /\ frame' = NoFrame
    /\ outcome' = NoOutcome
    /\ cmds' = <<>>
    /\ inp' = <<>>
    /\ out' = <<>>
    /\ UNCHANGED <<procs, save_scans, main_branch_name, scans, now, ncalls>>

(***************************************************************************)
(* Branch discovery and divergence reading, called on their own.           *)
(***************************************************************************)
CallGetListOfUnmergedBranches(branch, repo_dir, include_main, res) ==
    /\ pc = "idle"
    /\ ncalls' = ncalls + 1
    /\ LET r == get_list_of_unmerged_branches(branch, repo_dir, include_main,
                                              main_branch_name, res)
       IN  /\ cmds' = r.cmds
           /\ procs' = procs \o StillRunning(r.cmds)
           /\ frame' = [NoFrame EXCEPT
                 !.op = "get_list_of_unmerged_branches", !.branch = branch,
                 !.repo_dir = repo_dir, !.include_main = include_main,
                 !.listing = res.stdout,
                 !.unmerged_branches = r.list]
           /\ outcome' = IF r.raised # "" THEN Raised(r.raised, "") ELSE Returned("list", "")
           /\ pc' = IF r.raised # "" THEN "error" ELSE "done"
    /\ UNCHANGED <<save_scans, main_branch_name, scans, now, inp, out>>

CallGetListOfUnmergedCommits(source_branch, target_branch, repo_dir, res) ==
    /\ pc = "idle"
    /\ ncalls' = ncalls + 1
    /\ LET r == get_list_of_unmerged_commits(source_branch, target_branch, repo_dir, res)
       IN  /\ cmds' = r.cmds
           /\ procs' = procs \o StillRunning(r.cmds)
           /\ frame' = [NoFrame EXCEPT
                 !.op = "get_list_of_unmerged_commits", !.branch = target_branch,
                 !.repo_dir = repo_dir, !.todo = <<source_branch>>,
                 !.logs = IF r.cmds = <<>> THEN <<>> ELSE Put(<<>>, source_branch, res.stdout),
                 !.unmerged_commits_by_branch =
                     IF r.raised # "" THEN <<>> ELSE Put(<<>>, source_branch, r.list)]
           /\ outcome' = IF r.raised # "" THEN Raised(r.raised, "") ELSE Returned("list", "")
           /\ pc' = IF r.raised # "" THEN "error" ELSE "done"
    /\ UNCHANGED <<save_scans, main_branch_name, scans, now, inp, out>>

(***************************************************************************)
(* The aggregations, called on their own with the records of earlier scans.*)
(***************************************************************************)
Commit(hash, date, subject) == [hash |-> <<hash>>, date |-> <<date>>, subject |-> subject]

Entry(key, value) == [k |-> key, v |-> value]

\* reports that scans return
SampleReports ==
    {<<>>,
     <<Entry(<<"origin/", "f1">>, <<>>)>>,
     <<Entry(<<"origin/", "f1">>,
             <<Entry(<<"a@x.com">>, <<Commit("h1", "D00", <<"fix">>)>>)>>)>>,
     <<Entry(<<"origin/", "f1">>,
             <<Entry(<<"b@x.com">>, <<Commit("h4", "D03", <<"wip">>)>>),
               Entry(<<"a@x.com">>, <<Commit("h3", "D03", <<"more">>),
                                      Commit("h1", "D00", <<"fix">>)>>)>>),
       Entry(<<"origin/", "f2">>,
             <<Entry(<<"a@x.com">>, <<Commit("h5", "D00", <<"old">>)>>)>>)>>}

SampleRepoDirs ==
    {<<"/", "ws", "/", "r1">>, <<"/", "ws", "/", "r2">>, <<"/", "other", "/", "r1">>}

SampleRecords ==
    {ScanRecord(branch, repo_dir, report, <<>>) :
        branch \in {<<"main">>, <<"dev">>}, repo_dir \in SampleRepoDirs, report \in SampleReports}

SeqsUpTo(set, n) == UNION {[1..k -> set] : k \in 0..n}

CallApply(op, results, result) ==
    /\ pc = "idle"
    /\ ncalls' = ncalls + 1
    /\ frame' = [NoFrame EXCEPT !.op = op]
    /\ inp' = results
    /\ out' = result
    /\ cmds' = <<>>
    /\ UNCHANGED <<procs, save_scans, main_branch_name, scans, now>>

CallAggregateByRepo(results) ==
    /\ CallApply("aggregate_scan_results_by_repo", results,
                 aggregate_scan_results_by_repo(results))
    /\ outcome' = Returned("dict", "")
    /\ pc' = "done"

CallAggregateByEmail(results) ==
    /\ CallApply("aggregate_scan_results_by_email", results,
                 aggregate_scan_results_by_email(results))
    /\ outcome' = Returned("dict", "")
    /\ pc' = "done"

CallCreatePipelineReport(results) ==
    /\ CallApply("create_pipeline_report", results, create_pipeline_report(results, <<now>>))
    /\ outcome' = IF out'.raised # "" THEN Raised(out'.raised, "") ELSE Returned("dict", "")
    /\ pc' = IF out'.raised # "" THEN "error" ELSE "done"

Init ==
    /\ save_scans \in BOOLEAN
    /\ main_branch_name = DEFAULT_MAIN_BRANCH
    /\ scans = <<>>
    /\ pc = "idle"
    /\ frame = NoFrame
    /\ outcome = NoOutcome
    /\ cmds = <<>>
    /\ procs = <<>>
    /\ now = Now0
    /\ ncalls = 0
    /\ inp = <<>>
    /\ out = <<>>

\* no call has been made on the instance yet
Fresh == ncalls = 0

\* one call of one method on a fresh instance
Next ==
    \/ /\ Fresh
       /\ \E branch \in Branches, repo_dir \in RepoDirs, kwargs \in ScanKwargs :
              StartScan(branch, repo_dir, kwargs)
    \/ \E res1, res2 \in FetchResults : Fetch(res1, res2)
    \/ \E res \in ListingResults : Discover(res)
    \/ \E res \in LogResults : ReadDivergence(res)
    \/ FilterStale
    \/ Shape
    \/ Record
    \/ \E write_ok \in BOOLEAN : Finish(write_ok)
    \/ Return
    \/ /\ Fresh
       /\ \E branch \in Branches, repo_dir \in RepoDirs, include_main \in {B(FALSE), B(TRUE)},
             res \in ListingResults :
              CallGetListOfUnmergedBranches(branch, repo_dir, include_main, res)
    \/ /\ Fresh
       /\ \E source_branch \in SourceBranches, target_branch \in Branches \ {<<>>},
             repo_dir \in RepoDirs, res \in LogResults :
              CallGetListOfUnmergedCommits(source_branch, target_branch, repo_dir, res)
    \/ /\ Fresh
       /\ \E results \in SeqsUpTo(SampleRecords, MaxRecords) : CallAggregateByRepo(results)
    \/ /\ Fresh
       /\ \E results \in SeqsUpTo(SampleRecords, MaxRecords) : CallAggregateByEmail(results)
    \/ /\ Fresh
       /\ \E results \in SeqsUpTo(SampleRecords, MaxRecords) : CallCreatePipelineReport(results)

Spec == Init /\ [][Next]_vars

(***************************************************************************)
(* Properties of one call (Spec).                                          *)
(***************************************************************************)
CmdsOf(kind) == {i \in DOMAIN cmds : cmds[i].cmd = kind}

\* the branch names the call in progress was given
NamesGiven ==
    IF frame.op = "scan" \/ frame.op = "get_list_of_unmerged_branches"
    THEN {frame.branch}
    ELSE IF frame.op = "get_list_of_unmerged_commits"
         THEN {frame.branch} \cup {frame.todo[i] : i \in DOMAIN frame.todo}
         ELSE {}

\* C1: a call of scan, get_list_of_unmerged_branches or get_list_of_unmerged_commits
\* with a branch name (integration, source or target) that holds a whitespace
\* character ends in an AssertionError and has spawned no command.
C1_WhitespaceRejected ==
    (\E name \in NamesGiven : HasWhitespace(name)) =>
        /\ pc = "error"
        /\ outcome = Raised("AssertionError", "")
        /\ cmds = <<>>

C1_Witness ==
    /\ frame.op = "get_list_of_unmerged_commits"
    /\ HasWhitespace(frame.todo[1])
    /\ ~HasWhitespace(frame.branch)
    /\ ~HasWhitespace(frame.repo_dir)
    /\ pc = "error"

\* the branch listing of the scan in progress has come back
Discovered ==
    /\ frame.op = "scan"
    /\ \E i \in CmdsOf("branch") : cmds[i].rc # -1

AfterShape == pc \in {"record", "finish", "done"} \/ (pc = "error" /\ outcome.err = "WriteError")

FreshCount(results, id) ==
    Cardinality({i \in DOMAIN results : IsFresh(results[i].report) /\ ScanId(results[i]) = id})

\* C3: a scan whose branch discovery yields no branch spawns no log command and
\* its report is the empty mapping, which is what it returns with return_report;
\* in the digest every record with an empty report gives exactly one line, marked
\* fresh, and no entry of scans: the keys of scans are the ids of the records with
\* a non-empty report and no value of scans is empty.
C3_FreshScan ==
    /\ (Discovered /\ frame.unmerged_branches = <<>>) =>
          /\ CmdsOf("log") = {}
          /\ pc \notin {"read"}
          /\ AfterShape => frame.report_by_branch = <<>>
          /\ (pc = "done" /\ Truthy(frame.return_report)) => outcome = Returned("report", "")
    /\ (frame.op = "create_pipeline_report" /\ pc = "done") =>
          /\ \A i \in DOMAIN inp :
                IsFresh(inp[i].report) =>
                    Cardinality({j \in DOMAIN out.message :
                                    out.message[j].id = ScanId(inp[i])
                                    /\ out.message[j].kind = "fresh"})
                        = FreshCount(inp, ScanId(inp[i]))
          /\ Cardinality({j \in DOMAIN out.message : out.message[j].kind = "fresh"})
                = Cardinality({i \in DOMAIN inp : IsFresh(inp[i].report)})
          /\ Keys(out.scans) = {ScanId(inp[i]) : i \in {j \in DOMAIN inp : inp[j].report # <<>>}}
          /\ \A j \in DOMAIN out.scans : out.scans[j].v # <<>>

C3_Witness ==
    /\ Discovered
    /\ frame.unmerged_branches = <<>>
    /\ \E i \in CmdsOf("branch") : cmds[i].rc = 0
    /\ pc = "done"
    /\ outcome = Returned("report", "")

\* the branch listing of the scan in progress ended with a non-zero exit code
ListingFailed ==
    /\ frame.op = "scan"
    /\ \E i \in CmdsOf("branch") : cmds[i].rc > 0

\* C8 as claimed: a scan whose branch listing failed does not return the empty mapping.
C8_FailureIsNotFresh ==
    ~(ListingFailed /\ pc = "done" /\ outcome = Returned("report", "")
      /\ frame.report_by_branch = <<>>)

\* C8 as amended: a scan whose branch listing failed (non-zero exit code, nothing on
\* stdout) raises nothing for it, reads no divergence, and its report is the
\* empty mapping, the report of a repository with no unmerged branches.
C8_FailureLooksFresh ==
    ListingFailed =>
        /\ frame.unmerged_branches = <<>>
        /\ CmdsOf("log") = {}
        /\ pc = "error" => outcome.err = "WriteError"
        /\ AfterShape => frame.report_by_branch = <<>>
        /\ (pc = "done" /\ Truthy(frame.return_report)) => outcome = Returned("report", "")

C8_Witness ==
    /\ ListingFailed
    /\ pc = "done"
    /\ outcome = Returned("report", "")
    /\ frame.report_by_branch = <<>>

\* the report of a scan, from what git printed for it: the branch listing and the
\* log of each branch listed
ReportOverRefs(listing, logs, include_main, self_main, stale, clk) ==
    LET branches == BranchesOfListing(listing, include_main, self_main)
        F[i \in 0..Len(branches)] ==
            IF i = 0 THEN <<>>
            ELSE Put(F[i - 1], branches[i], ParseCommits(Get(logs, branches[i])))
    IN  create_report_by_branch(extract_stale_branches(F[Len(branches)], stale, clk))

\* the last fetch of the scan in progress ended with a non-zero exit code
FetchFailed ==
    /\ frame.op = "scan"
    /\ CmdsOf("fetch") # {}
    /\ LET last == CHOOSE i \in CmdsOf("fetch") : \A j \in CmdsOf("fetch") : j <= i
       IN  cmds[last].rc > 0

ReportIsOverRefs ==
    frame.report_by_branch =
        ReportOverRefs(frame.listing, frame.logs, frame.include_main, main_branch_name,
                       frame.stale, <<now>>)

\* C10: a scan whose fetch ended with a non-zero exit code goes on to branch
\* discovery; if it raises, a later step raised; and its report is the report made
\* of what git printed for the listing and the logs, as is the report of a scan
\* with fetch_first off.
C10_FetchFailureNotFatal ==
    /\ FetchFailed =>
          /\ pc # "fetch"
          /\ pc = "error" =>
                \/ outcome.err = "WriteError"
                \/ cmds[Len(cmds)].cmd # "fetch"
          /\ AfterShape => ReportIsOverRefs
    /\ (frame.op = "scan" /\ ~Truthy(frame.fetch_first)) =>
          /\ CmdsOf("fetch") = {}
          /\ AfterShape => ReportIsOverRefs

C10_Witness ==
    /\ FetchFailed
    /\ pc = "done"
    /\ frame.report_by_branch # <<>>
    /\ CmdsOf("log") # {}

\* the last record of results with the (repo_dir, branch) of record r
LastWithKey(results, r) ==
    results[CHOOSE i \in DOMAIN results :
                /\ results[i].repo_dir = r.repo_dir
                /\ results[i].branch = r.branch
                /\ \A j \in DOMAIN results :
                      (results[j].repo_dir = r.repo_dir /\ results[j].branch = r.branch) => j <= i]

\* the number of (repo_dir, branch) entries of a by-repo aggregate
RECURSIVE EntryCount(_)
EntryCount(by_repo) ==
    IF by_repo = <<>> THEN 0 ELSE Len(Head(by_repo).v) + EntryCount(Tail(by_repo))

RepoKeys(results) == {<<results[i].repo_dir, results[i].branch>> : i \in DOMAIN results}

ByRepoDone == frame.op = "aggregate_scan_results_by_repo" /\ pc = "done"

\* C4 as claimed: for every input record r the aggregate by repo holds r.report at
\* [r.repo_dir][r.branch], and it has as many entries as the input has records.
C4_RoundTripAny ==
    ByRepoDone =>
        /\ \A i \in DOMAIN inp :
              /\ HasKey(out, inp[i].repo_dir)
              /\ HasKey(Get(out, inp[i].repo_dir), inp[i].branch)
              /\ Get(Get(out, inp[i].repo_dir), inp[i].branch) = inp[i].report
        /\ EntryCount(out) = Len(inp)

\* C4 as amended: the aggregate by repo holds, for every input record r, at
\* [r.repo_dir][r.branch] the report of the last input record with r's repo_dir and
\* branch; its keys are distinct and it has one entry per distinct (repo_dir,
\* branch) of the input. So the round trip is exact when these pairs are pairwise
\* distinct.
C4_RoundTripDistinct ==
    ByRepoDone =>
        /\ WellFormedDict(out)
        /\ \A k \in DOMAIN out : WellFormedDict(out[k].v)
        /\ \A i \in DOMAIN inp :
              /\ HasKey(out, inp[i].repo_dir)
              /\ HasKey(Get(out, inp[i].repo_dir), inp[i].branch)
              /\ Get(Get(out, inp[i].repo_dir), inp[i].branch) = LastWithKey(inp, inp[i]).report
        /\ EntryCount(out) = Cardinality(RepoKeys(inp))
        /\ Cardinality(RepoKeys(inp)) = Len(inp) =>
              /\ EntryCount(out) = Len(inp)
              /\ \A i \in DOMAIN inp :
                    Get(Get(out, inp[i].repo_dir), inp[i].branch) = inp[i].report

C4_Witness ==
    /\ ByRepoDone
    /\ Len(inp) = 2
    /\ inp[1].repo_dir = inp[2].repo_dir
    /\ inp[1].branch # inp[2].branch
    /\ inp[1].report # inp[2].report
    /\ inp[1].report # <<>>
    /\ EntryCount(out) = 2

AuthorsOf(report) == {g.author : g \in {GroupsOf(report)[i] : i \in DOMAIN GroupsOf(report)}}

ReposOfAuthor(results, author) ==
    {results[i].repo_dir : i \in {j \in DOMAIN results : author \in AuthorsOf(results[j].report)}}

ByEmailDone == frame.op = "aggregate_scan_results_by_email" /\ pc = "done"

\* C5: the aggregate by email has exactly one top-level key per author email of the
\* input reports and no other key, and under an author exactly one key per repo_dir
\* whose reports hold commits of that author: an author of two repo_dirs has one
\* key and two repo_dir keys under it.
C5_OneKeyPerAuthor ==
    ByEmailDone =>
        /\ WellFormedDict(out)
        /\ Keys(out) = UNION {AuthorsOf(inp[i].report) : i \in DOMAIN inp}
        /\ \A k \in DOMAIN out :
              /\ WellFormedDict(out[k].v)
              /\ Keys(out[k].v) = ReposOfAuthor(inp, out[k].k)

C5_Witness ==
    /\ ByEmailDone
    /\ Len(inp) = 2
    /\ inp[1].repo_dir # inp[2].repo_dir
    /\ \E author \in AuthorsOf(inp[1].report) \cap AuthorsOf(inp[2].report) :
          /\ HasKey(out, author)
          /\ Cardinality(Keys(Get(out, author))) = 2


(***************************************************************************)
(* extract_stale_branches called on its own, with a clock that may advance *)
(* between two readings of get_datetime_now_with_tz.                       *)
(***************************************************************************)
MaxCommits == 2

\* commits as get_list_of_unmerged_commits makes them, the i-th of a list
FilterCommit(i, date) ==
    [hash |-> <<"h", i>>, date |-> date, author |-> <<"a@x.com">>, subject |-> <<"fix">>]

FilterDates == {<<"D00">>, <<"D03">>, <<"D15">>, <<"2020-01-28">>}

FilterCommitLists ==
    {[i \in DOMAIN ds |-> FilterCommit(ToString(i), ds[i])] :
        ds \in SeqsUpTo(FilterDates, MaxCommits)}

FilterInputs ==
    {<<>>}
    \cup {<<Entry(<<"origin/", "f1">>, c1)>> : c1 \in FilterCommitLists}
    \cup {<<Entry(<<"origin/", "f1">>, c1), Entry(<<"origin/", "f2">>, c2)>> :
              c1 \in FilterCommitLists, c2 \in FilterCommitLists}

\* the readings of a clock that reads Now0 k times and Now0 + t from then on
Clock(k, t) == [i \in 1..(k + 1) |-> IF i <= k THEN Now0 ELSE Now0 + t]

Clocks == {<<Now0>>} \cup {Clock(k, t) : k \in 1..MaxCommits, t \in 1..MaxTicks}

StaleValues == {1, 7, 9}

CallExtractStaleBranches(unmerged_commits_by_branch, stale, clk) ==
    /\ CallApply("extract_stale_branches",
                 [unmerged_commits_by_branch |-> unmerged_commits_by_branch,
                  stale |-> stale, clk |-> clk],
                 extract_stale_branches(unmerged_commits_by_branch, stale, clk))
    /\ outcome' = Returned("dict", "")
    /\ pc' = "done"

\* date_is_older_than_n_days called on its own
CallDateIsOlder(date_, n_days, raise_exceptions) ==
    LET r == date_is_older_than_n_days_with(date_, n_days, raise_exceptions, now)
    IN  /\ CallApply("date_is_older_than_n_days",
                     [date |-> date_, n_days |-> n_days, raise_exceptions |-> raise_exceptions],
                     r.value)
        /\ outcome' = IF r.raised # "" THEN Raised(r.raised, "") ELSE Returned("bool", "")
        /\ pc' = IF r.raised # "" THEN "error" ELSE "done"

NextFilter ==
    \/ /\ Fresh
       /\ \E ucbb \in FilterInputs, stale \in StaleValues, clk \in Clocks :
              CallExtractStaleBranches(ucbb, stale, clk)
    \/ /\ Fresh
       /\ \E date_ \in FilterDates \cup BadDates, n_days \in StaleValues,
             raise_exceptions \in {B(FALSE), B(TRUE)} :
              CallDateIsOlder(date_, n_days, raise_exceptions)
    \/ Return

SpecFilter == Init /\ [][NextFilter]_vars


FilterDone == pc = "done" /\ frame.op = "extract_stale_branches"

\* the commit is at least n_days old at the instant t
OldAt(commit, n_days, t) ==
    CanStrptime(commit.date) /\ Days(t, Strptime(commit.date)) >= n_days

EveryCommitOldAt(commits, n_days, t) ==
    \A i \in DOMAIN commits : OldAt(commits[i], n_days, t)

\* C2: extract_stale_branches keeps a branch if and only if every one of its
\* commits is at least N days old: a branch whose commits are all N days old
\* when the call starts is kept, a branch with a commit that is not N days old
\* when the call ends is excluded whatever the age of its other commits (the
\* two coincide unless the clock moves during the call), a branch with an
\* empty commit list is kept, and every kept branch keeps its place and maps
\* to its full, unchanged commit list.
C2_AllOrNothing ==
    FilterDone =>
        LET ucbb == inp.unmerged_commits_by_branch
            first == inp.clk[1]
            last == inp.clk[Len(inp.clk)]
            kept == {i \in DOMAIN ucbb : HasKey(out, ucbb[i].k)}
        IN  /\ \A i \in DOMAIN ucbb :
                 /\ EveryCommitOldAt(ucbb[i].v, inp.stale, first) => i \in kept
                 /\ ~EveryCommitOldAt(ucbb[i].v, inp.stale, last) => i \notin kept
                 /\ ucbb[i].v = <<>> => i \in kept
            /\ out = Filter(ucbb, {ucbb[i] : i \in kept})

\* a branch with an old commit and then a young one is excluded; another is kept
C2_Witness ==
    /\ FilterDone
    /\ out # <<>>
    /\ \E i \in DOMAIN inp.unmerged_commits_by_branch :
           LET commits == inp.unmerged_commits_by_branch[i].v
           IN  /\ Len(commits) >= 2
               /\ OldAt(commits[1], inp.stale, inp.clk[1])
               /\ ~OldAt(commits[2], inp.stale, inp.clk[Len(inp.clk)])
               /\ CanStrptime(commits[2].date)
               /\ ~HasKey(out, inp.unmerged_commits_by_branch[i].k)


(***************************************************************************)
(* execute_git_fetch called on its own, git answering its fetch with any   *)
(* exit code and any lines on stderr.                                      *)
(***************************************************************************)
MaxStderrLines == 2

StderrLines ==
    {<<"fatal:", " ", UNSHALLOW_DIAG>>, <<UNSHALLOW_DIAG>>, <<"fatal:", " ", "unable to access">>}

FirstFetchResults ==
    {ExecRes(rc, <<>>, stderr) :
        rc \in {0, 128}, stderr \in SeqsUpTo(StderrLines, MaxStderrLines)}
    \cup {TimeoutExpired}

CallExecuteGitFetch(repo_dir, res1, res2) ==
    /\ pc = "idle"
    /\ ncalls' = ncalls + 1
    /\ LET r == execute_git_fetch(repo_dir, res1, res2)
       IN  /\ cmds' = r.cmds
           /\ procs' = procs \o StillRunning(r.cmds)
           /\ frame' = [NoFrame EXCEPT !.op = "execute_git_fetch", !.repo_dir = repo_dir]
           /\ inp' = [repo_dir |-> repo_dir, res1 |-> res1, res2 |-> res2]
           /\ out' = r
           /\ outcome' = IF r.raised # "" THEN Raised(r.raised, "") ELSE Returned("ExecRes", "")
           /\ pc' = IF r.raised # "" THEN "error" ELSE "done"
    /\ UNCHANGED <<save_scans, main_branch_name, scans, now>>

NextFetch ==
    \/ /\ Fresh
       /\ \E repo_dir \in RepoDirs, res1 \in FirstFetchResults, res2 \in FetchResults :
              CallExecuteGitFetch(repo_dir, res1, res2)
    \/ Return

SpecFetch == Init /\ [][NextFetch]_vars

\* the call of execute_git_fetch has ended, its repo_dir accepted
FetchCallEnded ==
    /\ pc \in {"done", "error"}
    /\ frame.op = "execute_git_fetch"
    /\ NoWhitespace(frame.repo_dir)

\* the diagnostic occurs within a line of stderr
DiagWithinALine(stderr) == \E i \in DOMAIN stderr : Contains(stderr[i], <<UNSHALLOW_DIAG>>)

\* C9: execute_git_fetch first runs fetch with --unshallow; whenever a line of
\* the first fetch's stderr contains the diagnostic '--unshallow on a complete
\* repository does not make sense' anywhere within it, fetch runs exactly once
\* more, with the same options minus --unshallow, and the result of the second
\* run is the one returned; otherwise fetch runs exactly once; it never runs
\* more than twice.
C9_RetryOnDiagnostic ==
    FetchCallEnded =>
        /\ Len(cmds) \in {1, 2}
        /\ cmds[1].cmd = "fetch" /\ cmds[1].args = FetchOptions
        /\ IF ~inp.res1.timeout /\ DiagWithinALine(inp.res1.stderr)
           THEN /\ Len(cmds) = 2
                /\ cmds[2].cmd = "fetch"
                /\ cmds[2].args = RemoveUnshallow(FetchOptions)
                /\ out.res = inp.res2
           ELSE Len(cmds) = 1


(***************************************************************************)
(* A sequence of scan calls on one instance: the scan history self.scans.  *)
(***************************************************************************)
HistoryKwargs ==
    {<<>>, Kw("return_report", B(TRUE)), Kw("save_scan", B(TRUE)), Kw("save_scan", B(FALSE))}

HistoryFetchResults == {ExecRes(0, <<>>, <<>>), TimeoutExpired}

HistoryListingResults ==
    {ExecRes(0, <<>>, <<>>),
     ExecRes(0, << <<" ", " ", "origin/", "f1">> >>, <<>>)}

HistoryLogResults ==
    {ExecRes(0, << Line("h1", "D00", "a@x.com", <<"fix">>) >>, <<>>),
     ExecRes(0, << Line("h3", "D00", "a@x.com", <<"a", "|", "b">>) >>, <<>>)}

\* a process that git_exec gave up on ends on its own
ProcessExits ==
    /\ procs # <<>>
    /\ \E i \in DOMAIN procs :
           procs' = SubSeq(procs, 1, i - 1) \o SubSeq(procs, i + 1, Len(procs))
    /\ UNCHANGED <<save_scans, main_branch_name, scans, pc, frame, outcome, cmds, now,
                   ncalls, inp, out>>

NextHistory ==
    \/ /\ ncalls < MaxScans
       /\ \E kwargs \in HistoryKwargs : StartScan(<<>>, <<".">>, kwargs)
    \/ \E res1, res2 \in HistoryFetchResults : Fetch(res1, res2)
    \/ \E res \in HistoryListingResults : Discover(res)
    \/ \E res \in HistoryLogResults : ReadDivergence(res)
    \/ FilterStale
    \/ Shape
    \/ Record
    \/ \E write_ok \in BOOLEAN : Finish(write_ok)
    \/ Return
    \/ ProcessExits

SpecHistory == Init /\ [][NextHistory]_vars

ScanEnded == pc \in {"done", "error"} /\ frame.op = "scan"

\* the record of the call in progress
RecordOfCall ==
    [branch |-> frame.branch, repo_dir |-> frame.repo_dir,
     report |-> frame.report_by_branch, kwargs |-> frame.kwargs]

\* C6 as stated: with saving enabled on the instance, a scan call adds its
\* record to self.scans if and only if it completed without error, and with
\* saving not enabled the list stays empty.
C6_RecordIffCompleted ==
    ScanEnded =>
        IF save_scans
        THEN scans = IF outcome.status = "returned"
                     THEN Append(frame.scans_before, RecordOfCall)
                     ELSE frame.scans_before
        ELSE scans = <<>>

\* saving is in effect for the call: its save_scan option, else self.save_scans
SavingInEffect == Truthy(Pop(frame.kwargs, "save_scan", B(save_scans)))

\* the call shaped its report: it returned, or only the write of the report failed
ReportShaped == outcome.status = "returned" \/ outcome.err = "WriteError"

\* C6: self.scans grows by exactly one record, at its end, for every scan call
\* that shaped its report with saving in effect for the call (its save_scan
\* option if given, else the instance's save_scans), whether or not the write
\* of the report then raised; the record carries the resolved branch, the
\* repo_dir, the options passed and the report the call computed, which is the
\* one it returns with return_report; any other scan call leaves self.scans as
\* it found it, so the list holds at most one record per call, in call order,
\* and stays empty while saving is in effect for no call.
C6_RecordWhenShaped ==
    /\ Len(scans) <= ncalls
    /\ ScanEnded =>
           /\ scans = IF ReportShaped /\ SavingInEffect
                      THEN Append(frame.scans_before, RecordOfCall)
                      ELSE frame.scans_before
           /\ RecordOfCall.branch = BranchOrMain(<<>>, main_branch_name)
           /\ ReportShaped =>
                  frame.report_by_branch =
                      create_report_by_branch(extract_stale_branches(
                          frame.unmerged_commits_by_branch, frame.stale, <<now>>))

\* a second scan, its options given, has added its record after the first one's
C6_Witness ==
    /\ ScanEnded
    /\ outcome.status = "returned"
    /\ frame.kwargs # <<>>
    /\ frame.report_by_branch # <<>>
    /\ Len(frame.scans_before) = 1
    /\ Len(scans) = 2
    /\ scans[2].kwargs = frame.kwargs


(***************************************************************************)
(* main in input-file mode: scan_multiple_from_input_file, scan_multiple.  *)
(* inp is the state of the run: the command line, the configs read from    *)
(* the input file, and the locals of scan_multiple; out is its             *)
(* results_by_branch.                                                      *)
(***************************************************************************)
MaxConfigs == 2

\* d.update(e)
Update(d, e) ==
    LET F[i \in 0..Len(e)] == IF i = 0 THEN d ELSE Put(F[i - 1], e[i].k, e[i].v)
    IN  F[Len(e)]

\* the values OptionParser gives the options of main: the defaults, or one flag given
CliDefaults ==
    [output |-> S(""), include_main |-> B(FALSE), fetch_first |-> B(TRUE),
     stale |-> STALE_DAYS_DEFAULT, report_by_email |-> B(FALSE), report_by_repo |-> B(FALSE)]

CommandLines ==
    {CliDefaults,
     [CliDefaults EXCEPT !.stale = S("9")],
     [CliDefaults EXCEPT !.include_main = B(TRUE)],
     [CliDefaults EXCEPT !.fetch_first = B(FALSE)],
     [CliDefaults EXCEPT !.report_by_email = B(TRUE)],
     [CliDefaults EXCEPT !.report_by_repo = B(TRUE)]}

\* a config of the input file: its branch, its repo_dir and the options it defines
Config(branch, repo_dir, options) ==
    [branch |-> branch, repo_dir |-> repo_dir, options |-> options]

Configs ==
    {Config(<<"main">>, <<".">>, <<>>),
     Config(<<"main">>, <<".">>, Kw("stale", S("9"))),
     Config(<<"dev">>, <<".">>, Kw("include_main", B(TRUE))),
     Config(<<"main">>, <<".">>, Kw("fetch_first", B(FALSE)))}

\* main, lines 452-462: the kwargs it makes of the options
MainKwargs(options) ==
    << [k |-> "output", v |-> options.output],
       [k |-> "include_main", v |-> options.include_main],
       [k |-> "fetch_first", v |-> options.fetch_first],
       [k |-> "stale", v |-> options.stale],
       [k |-> "report_by_email", v |-> options.report_by_email],
       [k |-> "report_by_repo", v |-> options.report_by_repo] >>

\* scan_multiple, lines 274-278: the kwargs it keeps for its scans
MultipleKwargs(kwargs) ==
    Without(Without(Without(Put(Without(kwargs, "return_report"), "return_report", B(TRUE)),
        "report_by_email"), "report_by_repo"), "output")

\* lines 286-287: scan_kwargs = config; scan_kwargs.update(kwargs)
ScanKwargsOf(config, kwargs) == Update(config.options, kwargs)

\* mode: "input" (main with --input), or a direct call of "scan_multiple",
\* "scan_multiple_pipeline" or "scan"; given: the kwargs of a direct call;
\* workspace: the value of the environment variable WORKSPACE
NoRun ==
    [at |-> "main", cli |-> CliDefaults, configs |-> <<>>, kwargs |-> <<>>, todo |-> <<>>,
     return_report |-> B(FALSE), report_by_email |-> B(FALSE), report_by_repo |-> B(FALSE),
     report |-> <<>>, mode |-> "input", given |-> <<>>, workspace |-> <<"/", "ws">>]

InitMultiple ==
    /\ save_scans = FALSE
    /\ main_branch_name = DEFAULT_MAIN_BRANCH
    /\ scans = <<>>
    /\ pc = "idle"
    /\ frame = NoFrame
    /\ outcome = NoOutcome
    /\ cmds = <<>>
    /\ procs = <<>>
    /\ now = Now0
    /\ ncalls = 0
    /\ inp \in {[NoRun EXCEPT !.cli = cli, !.configs = configs] :
                   cli \in CommandLines, configs \in SeqsUpTo(Configs, MaxConfigs)}
    /\ out = <<>>


\* main, lines 452-469, and scan_multiple up to its loop, lines 274-280
MainInputFile ==
    /\ pc = "idle"
    /\ inp.at = "main"
    /\ LET kwargs == MainKwargs(inp.cli)
       IN  inp' = [inp EXCEPT
                     !.at = "loop",
                     !.kwargs = MultipleKwargs(kwargs),
                     !.todo = inp.configs,
                     !.return_report = Pop(kwargs, "return_report", B(FALSE)),
                     !.report_by_email = Pop(kwargs, "report_by_email", B(FALSE)),
                     !.report_by_repo = Pop(kwargs, "report_by_repo", B(FALSE))]
    /\ UNCHANGED <<procs, save_scans, main_branch_name, scans, pc, frame, outcome, cmds, now,
                   ncalls, out>>

\* lines 281-288: the scan of the next config starts
MultipleScan ==
    /\ inp.at = "loop"
    /\ inp.mode # "scan_multiple_pipeline"
    /\ inp.todo # <<>>
    /\ LET config == Head(inp.todo)
       IN  StartScan(config.branch, config.repo_dir, ScanKwargsOf(config, inp.kwargs))

\* lines 288-290: the scan has returned its report; its record is appended
MultipleCollect ==
    /\ inp.at = "loop"
    /\ pc = "done"
    /\ frame.op = "scan"
    /\ LET config == Head(inp.todo)
       IN  out' = Append(out, ScanRecord(config.branch, frame.repo_dir,
                                         frame.report_by_branch, frame.kwargs))
    /\ inp' = [inp EXCEPT !.todo = Tail(inp.todo)]
    /\ pc' = "idle"
    /\ frame' = NoFrame
    /\ outcome' = NoOutcome
    /\ cmds' = <<>>
    /\ UNCHANGED <<procs, save_scans, main_branch_name, scans, now, ncalls>>

\* lines 292-302: the report is aggregated and returned or written
MultipleFinish(write_ok) ==
    /\ inp.at = "loop"
    /\ inp.mode # "scan_multiple_pipeline"
    /\ inp.todo = <<>>
    /\ pc = "idle"
    /\ inp' = [inp EXCEPT
                 !.at = "end",
                 !.report = IF Truthy(inp.report_by_repo)
                            THEN aggregate_scan_results_by_repo(out)
                            ELSE IF Truthy(inp.report_by_email)
                                 THEN aggregate_scan_results_by_email(out)
                                 ELSE out]
    /\ outcome' = IF Truthy(inp.return_report)
                  THEN Returned("report", "")
                  ELSE write_report(inp.kwargs, write_ok)
    /\ pc' = IF outcome'.status = "raised" THEN "error" ELSE "done"
    /\ frame' = [NoFrame EXCEPT !.op = "scan_multiple"]
    /\ UNCHANGED <<procs, save_scans, main_branch_name, scans, cmds, now, ncalls, out>>

MultipleListingResults ==
    {ExecRes(0, <<>>, <<>>),
     ExecRes(0, << <<" ", " ", "origin/", "HEAD", " ", "->", " ", "origin/", "main">>,
                   <<" ", " ", "origin/", "main">>,
                   <<" ", " ", "origin/", "f1">> >>, <<>>)}

NextMultiple ==
    \/ MainInputFile
    \/ MultipleScan
    \/ \E res1, res2 \in HistoryFetchResults : Fetch(res1, res2)
    \/ \E res \in MultipleListingResults : Discover(res)
    \/ \E res \in HistoryLogResults : ReadDivergence(res)
    \/ FilterStale
    \/ Shape
    \/ \E write_ok \in BOOLEAN : Finish(write_ok)
    \/ MultipleCollect
    \/ \E write_ok \in BOOLEAN : MultipleFinish(write_ok)

SpecMultiple == InitMultiple /\ [][NextMultiple]_vars

\* a scan of scan_multiple is running (or has just ended) for the config at hand
ScanOfConfig == inp.at = "loop" /\ frame.op = "scan" /\ pc # "idle"

\* the command line leaves the option at its default
AtDefault(option) ==
    CASE option = "stale" -> inp.cli.stale = CliDefaults.stale
      [] option = "fetch_first" -> inp.cli.fetch_first = CliDefaults.fetch_first
      [] OTHER -> inp.cli.include_main = CliDefaults.include_main

\* C7: in input-file mode, when a config entry defines one of the options
\* stale, fetch_first or include_main (and the command line leaves that option
\* at its default), the scan of that entry runs with the value the config
\* entry gives.
C7_ConfigOptionWins ==
    ScanOfConfig =>
        LET options == Head(inp.todo).options
        IN  /\ HasKey(options, "stale") /\ AtDefault("stale") /\ CanInt(Get(options, "stale"))
                   => frame.stale = IntOf(Get(options, "stale"))
            /\ HasKey(options, "fetch_first") /\ AtDefault("fetch_first")
                   => frame.fetch_first = Get(options, "fetch_first")
            /\ HasKey(options, "include_main") /\ AtDefault("include_main")
                   => frame.include_main = Get(options, "include_main")


(***************************************************************************)
(* Processes (SpecHistory).                                                *)
(***************************************************************************)
\* C11: when a command does not finish within its timeout, git_exec raises the
\* timeout error with the process terminated: at the state where the error has
\* reached the caller, and at every state from which the next git_exec starts,
\* no process spawned by an earlier git_exec is still running.
C11_NoLeakedProcess ==
    /\ (pc = "error" /\ outcome.err = "TimeoutExpired") => procs = <<>>
    /\ pc \in {"idle", "fetch", "discover", "read"} => procs = <<>>


(***************************************************************************)
(* Malformed output of the log command (Spec).                             *)
(***************************************************************************)
\* the lines the log commands of the call printed that are not commit lines
MalformedLines ==
    {l \in UNION {{frame.logs[i].v[j] : j \in DOMAIN frame.logs[i].v} : i \in DOMAIN frame.logs} :
        ~IsCommitLine(l)}

\* C12: when a stdout line of the log command of a branch does not split on
\* '|' into exactly four fields, get_list_of_unmerged_commits raises (a
\* TypeError) and gives no commit list for the branch, neither a partial one
\* nor one without the line; the enclosing scan ends in error and has returned,
\* recorded and written nothing.
C12_MalformedLineIsFatal ==
    (frame.op \in {"scan", "get_list_of_unmerged_commits"} /\ MalformedLines # {}) =>
        /\ pc = "error"
        /\ outcome = Raised("TypeError", "")
        /\ scans = frame.scans_before
        /\ frame.report_by_branch = <<>>
        /\ \A i \in DOMAIN frame.logs :
               (\E j \in DOMAIN frame.logs[i].v : ~IsCommitLine(frame.logs[i].v[j]))
                   => ~HasKey(frame.unmerged_commits_by_branch, frame.logs[i].k)

\* a scan has read a log with a subject that holds a '|': more than four fields
C12_Witness ==
    /\ frame.op = "scan"
    /\ pc = "error"
    /\ \E l \in MalformedLines : Len(SplitPipe(Strip(l))) > 4


(***************************************************************************)
(* The three paths that write a report, called directly: scan,             *)
(* scan_multiple and scan_multiple_pipeline.                               *)
(***************************************************************************)
\* os.path.join(workspace, repo_name)
Join(workspace, repo_name) ==
    IF repo_name # <<>> /\ Head(repo_name) = "/" THEN repo_name
    ELSE IF workspace = <<>> \/ workspace[Len(workspace)] = "/" THEN workspace \o repo_name
         ELSE workspace \o <<"/">> \o repo_name

WriteKwargs == {<<>>, Kw("raise_exceptions", B(FALSE)), Kw("return_report", B(TRUE))}

\* configs of either kind: branch and repo_dir, or TARGET_BRANCH and REPO_NAME
WriteConfigs == {Config(<<"main">>, <<"r1">>, <<>>), Config(<<"dev">>, <<"r2">>, <<>>)}

InitWrite ==
    /\ save_scans = FALSE
    /\ main_branch_name = DEFAULT_MAIN_BRANCH
    /\ scans = <<>>
    /\ pc = "idle"
    /\ frame = NoFrame
    /\ outcome = NoOutcome
    /\ cmds = <<>>
    /\ procs = <<>>
    /\ now = Now0
    /\ ncalls = 0
    /\ inp \in {[NoRun EXCEPT !.at = "call", !.mode = mode, !.given = given,
                              !.configs = configs] :
                   mode \in {"scan", "scan_multiple", "scan_multiple_pipeline"},
                   given \in WriteKwargs, configs \in SeqsUpTo(WriteConfigs, MaxConfigs)}
    /\ out = <<>>

\* sub.scan(branch, repo_dir, **kwargs) for the first config
SingleScan ==
    /\ inp.at = "call"
    /\ inp.mode = "scan"
    /\ inp.configs # <<>>
    /\ ncalls = 0
    /\ StartScan(inp.configs[1].branch, inp.configs[1].repo_dir, inp.given)

\* sub.scan_multiple(configs, **kwargs), lines 274-280
CallScanMultiple ==
    /\ pc = "idle"
    /\ inp.at = "call"
    /\ inp.mode = "scan_multiple"
    /\ inp' = [inp EXCEPT
                 !.at = "loop",
                 !.kwargs = MultipleKwargs(inp.given),
                 !.todo = inp.configs,
                 !.return_report = Pop(inp.given, "return_report", B(FALSE)),
                 !.report_by_email = Pop(inp.given, "report_by_email", B(FALSE)),
                 !.report_by_repo = Pop(inp.given, "report_by_repo", B(FALSE))]
    /\ UNCHANGED <<procs, save_scans, main_branch_name, scans, pc, frame, outcome, cmds, now,
                   ncalls, out>>

\* sub.scan_multiple_pipeline(configs, pipeline_output, **kwargs), lines 252-255
CallScanMultiplePipeline ==
    /\ pc = "idle"
    /\ inp.at = "call"
    /\ inp.mode = "scan_multiple_pipeline"
    /\ inp' = [inp EXCEPT
                 !.at = "loop",
                 !.kwargs = Without(Put(inp.given, "return_report", B(TRUE)), "workspace"),
                 !.todo = inp.configs]
    /\ UNCHANGED <<procs, save_scans, main_branch_name, scans, pc, frame, outcome, cmds, now,
                   ncalls, out>>

\* lines 256-264: the scan of the next pipeline config starts
PipelineScan ==
    /\ inp.at = "loop"
    /\ inp.mode = "scan_multiple_pipeline"
    /\ inp.todo # <<>>
    /\ LET config == Head(inp.todo)
       IN  StartScan(config.branch, Join(inp.workspace, config.repo_dir),
                     ScanKwargsOf(config, inp.kwargs))

\* lines 268-270: write_pipeline_report(results_by_branch, pipeline_output), its
\* result dropped; return 0
PipelineFinish(write_ok) ==
    /\ inp.at = "loop"
    /\ inp.mode = "scan_multiple_pipeline"
    /\ inp.todo = <<>>
    /\ pc = "idle"
    /\ LET digest == create_pipeline_report(out, <<now>>)
           written == write_pipeline_report(<<>>, write_ok)
       IN  /\ inp' = [inp EXCEPT !.at = "end", !.report = digest.message]
           /\ outcome' = IF digest.raised # "" THEN Raised(digest.raised, "")
                         ELSE IF written.status = "raised" THEN written
                              ELSE Returned("0", written.written)
    /\ pc' = IF outcome'.status = "raised" THEN "error" ELSE "done"
    /\ frame' = [NoFrame EXCEPT !.op = "scan_multiple_pipeline"]
    /\ UNCHANGED <<procs, save_scans, main_branch_name, scans, cmds, now, ncalls, out>>

NextWrite ==
    \/ SingleScan
    \/ CallScanMultiple
    \/ CallScanMultiplePipeline
    \/ MultipleScan
    \/ PipelineScan
    \/ \E res1, res2 \in HistoryFetchResults : Fetch(res1, res2)
    \/ \E res \in MultipleListingResults : Discover(res)
    \/ \E res \in HistoryLogResults : ReadDivergence(res)
    \/ FilterStale
    \/ Shape
    \/ \E write_ok \in BOOLEAN : Finish(write_ok)
    \/ MultipleCollect
    \/ \E write_ok \in BOOLEAN : MultipleFinish(write_ok)
    \/ \E write_ok \in BOOLEAN : PipelineFinish(write_ok)

SpecWrite == InitWrite /\ [][NextWrite]_vars


\* the call made on the instance has ended
WriteCallEnded == pc \in {"done", "error"} /\ frame.op = inp.mode

\* the caller asked for failures of the write not to be raised, on a path that
\* hands the request to the write
NoRaiseAsked ==
    /\ inp.mode # "scan_multiple_pipeline"
    /\ ~Truthy(Pop(inp.given, "raise_exceptions", B(TRUE)))

\* C13: on the three write paths (scan, scan_multiple, scan_multiple_pipeline)
\* a failed write of the report is logged and then raised to the caller or,
\* only when raise_exceptions is false, turned into the return value 1; a call
\* returns 0 only when its report was written without error.
C13_WriteFailureNotDropped ==
    WriteCallEnded =>
        /\ outcome.written = "failed" =>
               outcome = IF NoRaiseAsked THEN Returned("1", "failed")
                         ELSE Raised("WriteError", "failed")
        /\ (outcome.status = "returned" /\ outcome.value = "0") => outcome.written = "ok"
        /\ (outcome.status = "returned" /\ outcome.value = "1") => NoRaiseAsked

\* scan_multiple, told not to raise, has scanned a config and failed to write
C13_Witness ==
    /\ WriteCallEnded
    /\ inp.mode = "scan_multiple"
    /\ out # <<>>
    /\ outcome = Returned("1", "failed")


(***************************************************************************)
(* The order of the steps of one scan (Spec).                              *)
(***************************************************************************)
\* the place of a command in a scan: fetches, then the listing, then the logs
Stage(cmd) == CASE cmd = "fetch" -> 1 [] cmd = "branch" -> 2 [] OTHER -> 3

\* the log commands among the commands of the call, in order
LogCmds ==
    LET F[i \in 0..Len(cmds)] ==
            IF i = 0 THEN <<>>
            ELSE IF cmds[i].cmd = "log" THEN Append(F[i - 1], cmds[i]) ELSE F[i - 1]
    IN  F[Len(cmds)]

CmdsInOrder ==
    frame.op = "scan" =>
        /\ \A i, j \in DOMAIN cmds : i < j => Stage(cmds[i].cmd) <= Stage(cmds[j].cmd)
        /\ ~Truthy(frame.fetch_first) => CmdsOf("fetch") = {}
        /\ Cardinality(CmdsOf("branch")) <= 1
        /\ Len(LogCmds) <= Len(frame.unmerged_branches)
        /\ \A k \in DOMAIN LogCmds :
               LogCmds[k].args = <<WithOrigin(frame.unmerged_branches[k]),
                                   WithOrigin(frame.branch)>>
        /\ pc \in {"filter", "shape", "record", "finish", "done"}
               => Len(LogCmds) = Len(frame.unmerged_branches)
        /\ Truthy(frame.return_report) => outcome.written = ""

\* one step of a scan: from pc to pc'
StepInOrder ==
    (frame'.op = "scan" \/ frame.op = "scan") =>
        \/ pc = "idle" /\ pc' = "error"
        \/ pc = "idle" /\ pc' = "fetch" /\ Truthy(frame'.fetch_first)
        \/ pc = "idle" /\ pc' = "discover" /\ ~Truthy(frame'.fetch_first)
        \/ pc = "fetch" /\ pc' \in {"discover", "error"}
        \/ pc = "discover" /\ pc' = "error"
        \/ pc = "discover" /\ pc' = "read" /\ frame'.todo = frame'.unmerged_branches
                           /\ frame'.todo # <<>>
        \/ pc = "discover" /\ pc' = "filter" /\ frame'.unmerged_branches = <<>>
        \/ pc = "read" /\ pc' = "error"
        \/ pc = "read" /\ pc' = "read" /\ frame'.todo = Tail(frame.todo) /\ frame'.todo # <<>>
        \/ pc = "read" /\ pc' = "filter" /\ Tail(frame.todo) = <<>>
        \/ pc = "filter" /\ pc' = "shape" /\ cmds' = cmds
        \/ pc = "shape" /\ pc' = "record"
                        /\ Truthy(Pop(frame.kwargs, "save_scan", B(save_scans)))
        \/ pc = "shape" /\ pc' = "finish"
                        /\ ~Truthy(Pop(frame.kwargs, "save_scan", B(save_scans)))
        \/ pc = "record" /\ pc' = "finish" /\ Len(scans') = Len(scans) + 1
        \/ pc = "finish" /\ pc' = "done" /\ Truthy(frame.return_report)
                         /\ outcome'.written = ""
        \/ pc = "finish" /\ pc' \in {"done", "error"} /\ ~Truthy(frame.return_report)
                         /\ outcome'.written # ""
        \/ pc \in {"done", "error"} /\ pc' = "idle"

\* C14: a scan takes its steps in the order Fetch (only when fetch_first is
\* true), Discover, ReadDivergence once for each discovered branch in turn,
\* Filter, Shape, Record (only when saving is in effect), Write (only when
\* return_report is false), or ends in error at a step; with fetch_first false
\* it issues no fetch command, its log commands are for the branches discovery
\* returned, in that order, and with return_report true it writes nothing.
C14_StepsInOrder == [][StepInOrder]_vars /\ []CmdsInOrder

\* a scan has fetched, listed, read a log, recorded and written
C14_Witness ==
    /\ frame.op = "scan"
    /\ pc = "done"
    /\ CmdsOf("fetch") # {}
    /\ LogCmds # <<>>
    /\ Len(scans) = 1
    /\ outcome.written = "ok"


(***************************************************************************)
(* get_list_of_unmerged_branches called on its own, on instances made with *)
(* any main_branch_name, git listing any lines.                            *)
(***************************************************************************)
MaxListingLines == 2

MainBranchNames == {<<"main">>, <<"dev">>}

ListingLines ==
    {<<" ", " ", "origin/", "HEAD", " ", "->", " ", "origin/", "main">>,
     <<" ", " ", "origin/", "main">>,
     <<" ", " ", "origin/", "dev">>,
     <<" ", " ", "origin/", "f1">>}

AnyListingResults ==
    {ExecRes(0, stdout, <<>>) : stdout \in SeqsUpTo(ListingLines, MaxListingLines)}
    \cup {TimeoutExpired}

\* __init__(main_branch_name=...), lines 44-48
InitDiscover ==
    /\ save_scans = FALSE
    /\ main_branch_name \in MainBranchNames
    /\ scans = <<>>
    /\ pc = "idle"
    /\ frame = NoFrame
    /\ outcome = NoOutcome
    /\ cmds = <<>>
    /\ procs = <<>>
    /\ now = Now0
    /\ ncalls = 0
    /\ inp = <<>>
    /\ out = <<>>

NextDiscover ==
    \/ /\ Fresh
       /\ \E branch \in {<<>>, <<"main">>, <<"dev">>, <<"origin/", "dev">>},
             include_main \in {B(FALSE), B(TRUE), S("")},
             res \in AnyListingResults :
              CallGetListOfUnmergedBranches(branch, <<".">>, include_main, res)
    \/ Return

SpecDiscover == InitDiscover /\ [][NextDiscover]_vars

DiscoverDone == pc = "done" /\ frame.op = "get_list_of_unmerged_branches"

\* the listing, each line stripped
StrippedListing == [i \in DOMAIN frame.listing |-> Strip(frame.listing[i])]

\* the remote ref of the integration branch of the call
IntegrationRef == WithOrigin(BranchOrMain(frame.branch, main_branch_name))

\* the remote ref of the main branch of the instance
MainRef == <<"origin/">> \o main_branch_name

ElementsOf(seq) == {seq[i] : i \in DOMAIN seq}

\* C15 as stated: with include_main false the returned list is the stripped
\* listing minus the entries with whitespace and minus the remote ref of the
\* integration branch passed to the call, whatever the main branch name.
C15_IntegrationBranchDropped ==
    DiscoverDone =>
        /\ IsFalse(frame.include_main) => IntegrationRef \notin ElementsOf(frame.unmerged_branches)
        /\ frame.unmerged_branches =
               Filter(StrippedListing,
                      {b \in ElementsOf(StrippedListing) :
                          /\ ~HasWhitespace(b)
                          /\ IsFalse(frame.include_main) => b # IntegrationRef})

\* C15: the returned list is the stripped listing, in listing order, minus the
\* entries with whitespace and, when include_main is the value False, minus
\* the remote ref of the main branch of the instance (origin/main_branch_name):
\* an entry equal to the remote ref of another integration branch is kept.
C15_MainBranchDropped ==
    DiscoverDone =>
        /\ IsFalse(frame.include_main) => MainRef \notin ElementsOf(frame.unmerged_branches)
        /\ \A b \in ElementsOf(StrippedListing) :
               b \in ElementsOf(frame.unmerged_branches)
                   <=> /\ ~HasWhitespace(b)
                       /\ b = MainRef => ~IsFalse(frame.include_main)
        /\ frame.unmerged_branches =
               Filter(StrippedListing, ElementsOf(frame.unmerged_branches))

\* the integration branch is dev on an instance whose main branch is main: the
\* listed origin/main is dropped, the listed origin/dev is kept
C15_Witness ==
    /\ DiscoverDone
    /\ IsFalse(frame.include_main)
    /\ main_branch_name = <<"main">>
    /\ IntegrationRef = <<"origin/", "dev">>
    /\ MainRef \in ElementsOf(StrippedListing)
    /\ frame.unmerged_branches = << <<"origin/", "dev">> >>


(***************************************************************************)
(* The clock of the staleness filter (SpecFilter).                         *)
(***************************************************************************)
\* C16: within one call of extract_stale_branches the current time is taken
\* once and every commit of every branch is compared against that instant: the
\* result of the call is the result of the filter at one instant that the
\* clock read during the call, whether or not the clock advanced meanwhile.
C16_OneInstant ==
    FilterDone =>
        \E t \in ElementsOf(inp.clk) :
            out = extract_stale_branches(inp.unmerged_commits_by_branch, inp.stale, <<t>>)


(***************************************************************************)
(* Timestamps that do not parse (SpecFilter).                              *)
(***************************************************************************)
DateCallEnded == pc \in {"done", "error"} /\ frame.op = "date_is_older_than_n_days"

\* C17: for a timestamp that does not parse, date_is_older_than_n_days returns
\* False and raises nothing, unless raise_exceptions is true, when it raises
\* the ValueError; extract_stale_branches raises nothing and leaves out every
\* branch with a commit whose timestamp does not parse.
C17_UnparsedIsNotOld ==
    /\ (DateCallEnded /\ ~CanStrptime(inp.date)) =>
           IF Truthy(inp.raise_exceptions)
           THEN outcome = Raised("ValueError", "")
           ELSE outcome.status = "returned" /\ out = FALSE
    /\ (DateCallEnded /\ CanStrptime(inp.date)) => outcome.status = "returned"
    /\ frame.op = "extract_stale_branches" =>
           /\ pc = "done" /\ outcome.status = "returned"
           /\ \A i \in DOMAIN inp.unmerged_commits_by_branch :
                  LET e == inp.unmerged_commits_by_branch[i]
                  IN  (\E j \in DOMAIN e.v : ~CanStrptime(e.v[j].date)) => ~HasKey(out, e.k)

\* a branch with an old commit and one whose timestamp does not parse is left
\* out, another branch is kept
C17_Witness ==
    /\ FilterDone
    /\ out # <<>>
    /\ \E i \in DOMAIN inp.unmerged_commits_by_branch :
           LET e == inp.unmerged_commits_by_branch[i]
           IN  /\ ~HasKey(out, e.k)
               /\ \E j \in DOMAIN e.v : ~CanStrptime(e.v[j].date)
               /\ \E j \in DOMAIN e.v : OldAt(e.v[j], inp.stale, inp.clk[1])
               /\ \A j \in DOMAIN e.v :
                      CanStrptime(e.v[j].date) => OldAt(e.v[j], inp.stale, inp.clk[1])


(***************************************************************************)
(* convert_commits_list_to_dict_by_author called on its own.               *)
(***************************************************************************)
MaxShapeCommits == 3

ShapeCommits ==
    {[hash |-> <<h>>, date |-> <<"D00">>, author |-> <<a>>, subject |-> <<"fix">>] :
        h \in {"h1", "h2"}, a \in {"a@x.com", "b@x.com"}}

CallConvertCommits(commits) ==
    /\ CallApply("convert_commits_list_to_dict_by_author", commits,
                 convert_commits_list_to_dict_by_author(commits))
    /\ outcome' = Returned("dict", "")
    /\ pc' = "done"

NextShape ==
    \/ /\ Fresh
       /\ \E commits \in SeqsUpTo(ShapeCommits, MaxShapeCommits) : CallConvertCommits(commits)
    \/ Return

SpecShape == Init /\ [][NextShape]_vars

ConvertDone == pc = "done" /\ frame.op = "convert_commits_list_to_dict_by_author"

\* the authors of the commits, each at its first occurrence
RECURSIVE FirstOccurrences(_)
FirstOccurrences(commits) ==
    IF commits = <<>> THEN <<>>
    ELSE LET before == FirstOccurrences(SubSeq(commits, 1, Len(commits) - 1))
             author == commits[Len(commits)].author
         IN  IF author \in ElementsOf(before) THEN before ELSE Append(before, author)

\* the commits of the author, in their order, without their author field
RECURSIVE CommitsOfAuthor(_, _)
CommitsOfAuthor(commits, author) ==
    IF commits = <<>> THEN <<>>
    ELSE (IF Head(commits).author = author
          THEN <<[hash |-> Head(commits).hash, date |-> Head(commits).date,
                  subject |-> Head(commits).subject]>>
          ELSE <<>>) \o CommitsOfAuthor(Tail(commits), author)

RECURSIVE SumLen(_)
SumLen(d) == IF d = <<>> THEN 0 ELSE Len(Head(d).v) + SumLen(Tail(d))

\* C18: the keys of the mapping convert_commits_list_to_dict_by_author returns
\* are the distinct authors of the list in the order of their first occurrence;
\* the value of an author is that author's commits in their order in the list,
\* each reduced to hash, date and subject; no value is empty and the values
\* hold as many commits as the list.
C18_GroupedByAuthor ==
    ConvertDone =>
        /\ KeySeq(out) = FirstOccurrences(inp)
        /\ WellFormedDict(out)
        /\ \A i \in DOMAIN out :
               /\ out[i].v = CommitsOfAuthor(inp, out[i].k)
               /\ out[i].v # <<>>
        /\ SumLen(out) = Len(inp)

\* an author's two commits around another author's commit
C18_Witness ==
    /\ ConvertDone
    /\ Len(inp) = 3
    /\ inp[1].author = inp[3].author
    /\ inp[1].author # inp[2].author
    /\ inp[1].hash # inp[3].hash
    /\ Len(out) = 2


(***************************************************************************)
(* The pipeline digest (Spec).                                             *)
(***************************************************************************)
DigestDone == pc = "done" /\ frame.op = "create_pipeline_report"

\* the whole days between `now` and the newest of the commits
NewestAge(commits) ==
    LET newest == CHOOSE i \in DOMAIN commits :
                      \A j \in DOMAIN commits :
                          Strptime(commits[j].date) <= Strptime(commits[i].date)
    IN  (now - Strptime(commits[newest].date)) \div DayLen

\* the lines from line k + 1 on are the sub-lines of the report, one per
\* (branch, author) pair, and the line after them is not a sub-line
SubLinesFollow(message, k, report) ==
    LET gs == GroupsOf(report)
    IN  /\ k + Len(gs) <= Len(message)
        /\ \A j \in DOMAIN gs :
               /\ message[k + j].kind = "sub"
               /\ message[k + j].branch = gs[j].branch
               /\ message[k + j].days = NewestAge(gs[j].commits)
        /\ k + Len(gs) < Len(message) => message[k + Len(gs) + 1].kind # "sub"

CountWhere(seq, set) == Cardinality({i \in DOMAIN seq : seq[i] \in set})

\* C19: for every non-fresh record the message of create_pipeline_report has
\* one summary line followed by exactly one sub-line per (branch, author) pair
\* of the record's report, in the order of the report, and the days of a
\* sub-line are the whole days between now and the newest commit of the pair.
C19_SubLinePerGroup ==
    DigestDone =>
        /\ CountWhere(out.message, {l \in ElementsOf(out.message) : l.kind = "summary"})
               = CountWhere(inp, {r \in ElementsOf(inp) : r.report # <<>>})
        /\ \A r \in ElementsOf(inp) :
               r.report # <<>> =>
                   \E k \in DOMAIN out.message :
                       /\ out.message[k] = SummaryLine(ScanId(r))
                       /\ SubLinesFollow(out.message, k, r.report)
        /\ \A k \in DOMAIN out.message :
               out.message[k].kind = "summary" =>
                   \E r \in ElementsOf(inp) :
                       /\ r.report # <<>>
                       /\ out.message[k].id = ScanId(r)
                       /\ SubLinesFollow(out.message, k, r.report)

\* a sub-line for an author with a newer and an older commit
C19_Witness ==
    /\ DigestDone
    /\ \E r \in ElementsOf(inp) :
           \E j \in DOMAIN GroupsOf(r.report) :
               LET commits == GroupsOf(r.report)[j].commits
               IN  /\ Len(commits) >= 2
                   /\ \E a, b \in DOMAIN commits :
                          Strptime(commits[a].date) < Strptime(commits[b].date)
                   /\ \E k \in DOMAIN out.message :
                          /\ out.message[k].kind = "sub"
                          /\ out.message[k].id = ScanId(r)
                          /\ out.message[k].days = NewestAge(commits)

Perms(n) == {p \in [1..n -> 1..n] : \A i, j \in 1..n : p[i] = p[j] => i = j}

Permuted(seq, p) == [i \in DOMAIN seq |-> seq[p[i]]]

\* the lines of the message that stand for a record: fresh and summary lines
RECURSIVE RecordLines(_)
RecordLines(message) ==
    IF message = <<>> THEN <<>>
    ELSE (IF Head(message).kind = "sub" THEN <<>> ELSE <<Head(message)>>)
         \o RecordLines(Tail(message))

DistinctKeys(results) ==
    \A i, j \in DOMAIN results :
        i # j => KeyLess(results[i], results[j]) \/ KeyLess(results[j], results[i])

\* C20: whatever the order of the input, the per-record lines of the message
\* are those of the records in ascending (basename(repo_dir), branch) order;
\* when the keys of the records are pairwise distinct, every permutation of
\* the input gives the same scans and the same message (the clock fixed), and
\* scans holds one entry per non-fresh record.
C20_OrderOfRecords ==
    DigestDone =>
        /\ \E p \in Perms(Len(inp)) :
               LET s == Permuted(inp, p)
               IN  /\ \A i, j \in DOMAIN s : i < j => ~KeyLess(s[j], s[i])
                   /\ RecordLines(out.message) =
                          [i \in DOMAIN s |-> IF s[i].report = <<>>
                                              THEN FreshLine(ScanId(s[i]))
                                              ELSE SummaryLine(ScanId(s[i]))]
        /\ DistinctKeys(inp) =>
               /\ \A p \in Perms(Len(inp)) :
                      create_pipeline_report(Permuted(inp, p), <<now>>) = out
               /\ Len(out.scans) = CountWhere(inp, {r \in ElementsOf(inp) : r.report # <<>>})
               /\ WellFormedDict(out.scans)

\* two records given in descending order of their keys, the first one not fresh
C20_Witness ==
    /\ DigestDone
    /\ Len(inp) = 2
    /\ KeyLess(inp[2], inp[1])
    /\ inp[1].report # <<>>
    /\ out.message[1].id = ScanId(inp[2])


(***************************************************************************)
(* The pivot by author keeps every commit (Spec).                          *)
(***************************************************************************)
\* the commits the aggregate holds under the author and the repo_dir
CommitsUnder(by_email, author, repo_dir) ==
    IF ~HasKey(by_email, author) THEN {}
    ELSE IF ~HasKey(Get(by_email, author), repo_dir) THEN {}
    ELSE LET repo_dict == Get(Get(by_email, author), repo_dir)
         IN  UNION {ElementsOf(repo_dict[i].v) : i \in DOMAIN repo_dict}

RECURSIVE SumOver(_)
SumOver(lens) == IF lens = <<>> THEN 0 ELSE Head(lens) + SumOver(Tail(lens))

\* the number of commits of the reports of the records
CommitsIn(results) ==
    SumOver([i \in DOMAIN results |->
                LET gs == GroupsOf(results[i].report)
                IN  SumOver([j \in DOMAIN gs |-> Len(gs[j].commits)])])

\* the number of commits the aggregate by email holds
CommitsInByEmail(by_email) ==
    SumOver([a \in DOMAIN by_email |->
                SumOver([r \in DOMAIN by_email[a].v |->
                            SumOver([b \in DOMAIN by_email[a].v[r].v |->
                                        Len(by_email[a].v[r].v[b].v)])])])

\* C21: every commit of a record's report under (stale branch, author) is in
\* the output of aggregate_scan_results_by_email under that author and the
\* record's repo_dir, also when the author has commits on several stale
\* branches of the record, and the output holds as many commits as the input.
C21_NothingLost ==
    ByEmailDone =>
        /\ \A i \in DOMAIN inp :
               LET gs == GroupsOf(inp[i].report)
               IN  \A j \in DOMAIN gs :
                       ElementsOf(gs[j].commits)
                           \subseteq CommitsUnder(out, gs[j].author, inp[i].repo_dir)
        /\ CommitsInByEmail(out) = CommitsIn(inp)


(***************************************************************************)
(* A scan on an instance that saves its scans, then create_pipeline_report *)
(* on the saved scans, the clock advancing meanwhile.                      *)
(***************************************************************************)
DigestKwargs == {<<>>, Kw("stale", S("0")), Kw("stale", S("1")), Kw("stale", S("9"))}

DigestListingResults ==
    {ExecRes(0, << <<" ", " ", "origin/", "f1">> >>, <<>>),
     ExecRes(0, << <<" ", " ", "origin/", "f1">>, <<" ", " ", "origin/", "f2">> >>, <<>>)}

DigestLogResults ==
    {ExecRes(0, <<>>, <<>>),
     ExecRes(0, << Line("h1", "D00", "a@x.com", <<"fix">>) >>, <<>>),
     ExecRes(0, << Line("h2", "D15", "b@x.com", <<"wip">>),
                   Line("h1", "D00", "a@x.com", <<"fix">>) >>, <<>>),
     ExecRes(0, << Line("h1", "D00", "a@x.com", <<"fix">>),
                   Line("h3", "D03", "a@x.com", <<"more">>) >>, <<>>),
     ExecRes(0, << Line("h1", "D00", "a@x.com", <<"fix">>),
                   Line("h6", "2020-01-28", "a@x.com", <<"old">>) >>, <<>>)}

InitDigest ==
    /\ save_scans = TRUE
    /\ main_branch_name = DEFAULT_MAIN_BRANCH
    /\ scans = <<>>
    /\ pc = "idle"
    /\ frame = NoFrame
    /\ outcome = NoOutcome
    /\ cmds = <<>>
    /\ procs = <<>>
    /\ now = Now0
    /\ ncalls = 0
    /\ inp = <<>>
    /\ out = <<>>

\* time passes: the clock never goes backwards
Tick ==
    /\ now < Now0 + MaxTicks
    /\ now' = now + 1
    /\ UNCHANGED <<procs, save_scans, main_branch_name, scans, pc, frame, outcome, cmds,
                   ncalls, inp, out>>

NextDigest ==
    \/ /\ Fresh
       /\ \E kwargs \in DigestKwargs : StartScan(<<>>, <<".">>, kwargs)
    \/ Fetch(ExecRes(0, <<>>, <<>>), ExecRes(0, <<>>, <<>>))
    \/ \E res \in DigestListingResults : Discover(res)
    \/ \E res \in DigestLogResults : ReadDivergence(res)
    \/ FilterStale
    \/ Shape
    \/ Record
    \/ \E write_ok \in BOOLEAN : Finish(write_ok)
    \/ Return
    \/ Tick
    \/ /\ ncalls = 1
       /\ CallCreatePipelineReport(scans)

SpecDigest == InitDigest /\ [][NextDigest]_vars

\* create_pipeline_report has ended
DigestEnded == pc \in {"done", "error"} /\ frame.op = "create_pipeline_report"

\* the staleness window of the scan that made the record
WindowOf(r) == IntOf(Pop(r.kwargs, "stale", STALE_DAYS_DEFAULT))

\* C22: create_pipeline_report on the record of a scan made with a staleness
\* window N >= 0, at any later reading of a clock that never goes backwards,
\* raises nothing; every (branch, author) group of the report is non-empty
\* with timestamps that parse, and the days of every sub-line are >= N.
C22_DaysAtLeastWindow ==
    DigestEnded =>
        /\ pc = "done"
        /\ out.raised = ""
        /\ \A i \in DOMAIN inp :
               /\ WindowOf(inp[i]) >= 0
               /\ \A g \in ElementsOf(GroupsOf(inp[i].report)) :
                      /\ g.commits # <<>>
                      /\ \A c \in ElementsOf(g.commits) : CanStrptime(c.date)
               /\ \A k \in DOMAIN out.message :
                      out.message[k].kind = "sub" => out.message[k].days >= WindowOf(inp[i])

\* the clock has advanced since the scan began and the digest has a sub-line
\* for a commit that was just old enough for the window
C22_Witness ==
    /\ DigestEnded
    /\ now > Now0
    /\ \E i \in DOMAIN inp :
           /\ WindowOf(inp[i]) > 0
           /\ \E k \in DOMAIN out.message :
                  /\ out.message[k].kind = "sub"
                  /\ out.message[k].days < WindowOf(inp[i]) + 2

====
